---- MODULE Spec2Model ----
(***************************************************************************)
(* Verification model of the literature-review RAG repository:             *)
(*   - PDFProcessor.chunk_text_sliding_window      (src/pdf_processor.py)  *)
(*   - SimplePaperStorage                          (src/simple_storage.py) *)
(*   - RAGQueryManager / MockRAGQueryManager / SimpleRAGQueryManager       *)
(*                     (src/rag_queries.py, _mock.py, _simple.py)          *)
(*                                                                         *)
(* Texts are sequences of symbols.  For the chunker a symbol is either the *)
(* whitespace symbol WS (0) or a whole word (a positive number, the word's *)
(* identity).  For the lexical search a text is a sequence of one-char     *)
(* strings.                                                                *)
(***************************************************************************)
EXTENDS Integers, Sequences, FiniteSets, TLC

VARIABLES
    chunk_size,     \* PDFProcessor.chunk_size
    overlap_size,   \* PDFProcessor.overlap_size
    chunk_in,       \* the text given to chunk_text_sliding_window
    chunk_out,      \* its outcome: [status, chunks]
    variant,        \* the manager the application runs: weaviate, mock, simple
    papers_file,    \* SimplePaperStorage: papers.json (a dict, in key order)
    chunks_file,    \* SimplePaperStorage: chunks.json (a dict, in key order)
    collection,     \* the objects of the Weaviate collection, in insertion order
    next_uuid,      \* the number of uuid4() values drawn so far
    last,           \* the last manager call and what it returned
    chat_history,   \* st.session_state.chat_history
    ui,             \* the last handler of the page and what it showed
    ingest,         \* the last batch ingestion and what it counted
    calls,          \* the insert_papers calls in progress on the shared storage
    rng,            \* the state of the random module's shared generator
    vectorized,     \* the vectorize calls made so far: text and outcome
    vec_calls,      \* the vectorize calls in progress, one thread each
    section_call,   \* the last detect_section_type call and what it returned
    tab_input,      \* the number chosen in the tab whose button was pressed
    chunk_log       \* the chunking calls made so far: arguments and outcome

chunkVars == <<chunk_size, overlap_size, chunk_in, chunk_out>>

storeVars == <<papers_file, chunks_file, collection, next_uuid>>

\* the state of the calls the later sections follow step by step
stepVars == <<vec_calls, section_call, tab_input, chunk_log>>

appVars == <<chat_history, ui, ingest, calls, rng, vectorized, stepVars>>

vars == <<chunk_size, overlap_size, chunk_in, chunk_out,
          variant, papers_file, chunks_file, collection, next_uuid, last,
          chat_history, ui, ingest, calls, rng, vectorized, vec_calls,
          section_call, tab_input, chunk_log>>

(***************************************************************************)
(* Bounds and program constants                                            *)
(***************************************************************************)
MaxChunkSize == 24
MaxWords == 27
ScenarioWords == 600
MaxStored == 3

MinChunkWords == 20
DefaultChunkSize == 250
DefaultOverlapSize == 50
ChatTopK == 8
GapTopK == 10
TopKResults == 5
DistScale == 2

WS == 0

Min(a, b) == IF a <= b THEN a ELSE b
Max(a, b) == IF a >= b THEN a ELSE b

(***************************************************************************)
(* Input texts of the chunker: n distinct words (word p is the number p),  *)
(* either separated by single blanks or with leading, doubled and trailing *)
(* whitespace.                                                             *)
(***************************************************************************)
TightText(n) ==
    IF n = 0 THEN <<>>
    ELSE [i \in 1..(2 * n - 1) |-> IF i % 2 = 1 THEN (i + 1) \div 2 ELSE WS]

RaggedText(n) ==
    [i \in 1..(3 * n + 1) |-> IF i % 3 = 0 THEN i \div 3 ELSE WS]

ShortLens == 0..MaxWords
LongLens == {ScenarioWords, ScenarioWords + MinChunkWords - 1,
             ScenarioWords + MinChunkWords}

\* every overlap from 0 up to one past the chunk size (the invalid ones)
ChunkerConfigs ==
    {cfg \in (1..MaxChunkSize) \X (0..(MaxChunkSize + 1)) : cfg[2] <= cfg[1] + 1}
        \cup {<<DefaultChunkSize, DefaultOverlapSize>>}

TextsFor(cs) ==
    {TightText(n) : n \in ShortLens} \cup {RaggedText(n) : n \in ShortLens}
        \cup (IF cs = DefaultChunkSize
              THEN {TightText(n) : n \in LongLens}
              ELSE {})

(***************************************************************************)
(* PDFProcessor.chunk_text_sliding_window                                  *)
(***************************************************************************)
\* str.split(): the words of the text, whitespace runs dropped
split(text) == SelectSeq(text, LAMBDA c : c # WS)

\* " ".join(words)
join(words) ==
    IF Len(words) = 0 THEN <<>>
    ELSE [i \in 1..(2 * Len(words) - 1) |->
            IF i % 2 = 1 THEN words[(i + 1) \div 2] ELSE WS]

\* words[i : j] for 0 <= i, 0 <= j
slice(words, i, j) == SubSeq(words, i + 1, Min(j, Len(words)))

\* range(0, stop, step) for step # 0, as the sequence of its values
range0(stop, step) ==
    IF step > 0
    THEN [k \in 1..((stop + step - 1) \div step) |-> (k - 1) * step]
    ELSE <<>>

\* the test of line 273: only windows of at least 20 words are kept
KeepChunkStrict(chunk_words) == Len(chunk_words) > MinChunkWords
KeepChunk(chunk_words) == Len(chunk_words) >= MinChunkWords

\* chunk_words = words[i : i + self.chunk_size]
WindowWrong(words, i, cs) == slice(words, i, i + cs - 1)
Window(words, i, cs) == slice(words, i, i + cs)

\* the for loop of lines 269-275 over the values `starts` of the range
RECURSIVE ChunkLoop(_, _, _, _, _)
ChunkLoop(words, starts, k, cs, chunks) ==
    IF k > Len(starts) THEN chunks
    ELSE LET chunk_words == Window(words, starts[k], cs)
         IN ChunkLoop(words, starts, k + 1, cs,
                      IF KeepChunk(chunk_words)
                      THEN Append(chunks, join(chunk_words))
                      ELSE chunks)

\* (a chunker whose step ignores the overlap)
chunk_text_no_overlap(cs, ov, text) ==
    LET words == split(text)
    IN [status |-> "returned",
        chunks |-> ChunkLoop(words, range0(Len(words), cs), 1, cs, <<>>)]

\* (a chunker that goes on from the list of the call before)
chunk_text_accumulating(cs, ov, text) ==
    LET words == split(text)
        step_size == cs - ov
    IN IF step_size = 0
       THEN [status |-> "ValueError", chunks |-> <<>>]
       ELSE [status |-> "returned",
             chunks |-> ChunkLoop(words, range0(Len(words), step_size), 1, cs,
                                  chunk_out.chunks)]

\* range() raises ValueError when its step is zero
chunk_text_sliding_window(cs, ov, text) ==
    LET words == split(text)
        step_size == cs - ov
    IN IF step_size = 0
       THEN [status |-> "ValueError", chunks |-> <<>>]
       ELSE [status |-> "returned",
             chunks |-> ChunkLoop(words, range0(Len(words), step_size), 1, cs, <<>>)]

(***************************************************************************)
(* The stores and the manager calls.                                       *)
(*                                                                         *)
(* A text is a sequence of one-character strings.  A paper handed to       *)
(* insert_papers is [title, chunks]; title stands for the citation data    *)
(* (title, authors, doi) that is copied unchanged into every record.       *)
(***************************************************************************)
TextABC == <<"a", ".", "b", " ", "c">>
TextA == <<"A">>
TextD == <<"d", "d">>
QueryABC == <<"a", " ", "B", " ", "c">>
QueryA == <<"a">>
QueryAB == <<"a", "b">>
QueryDots == <<".", " ", ".">>

\* The lexical store is explored with three chunk texts and one title, the
\* vector stores (whose search does not read the text) with one text and
\* two titles.
Contents(v) == IF v = "simple" THEN {TextABC, TextA, TextD} ELSE {TextABC}
Queries(v) ==
    IF v = "simple" THEN {QueryABC, QueryA, QueryAB, QueryDots, <<>>}
    ELSE {QueryABC}
Titles(v) == IF v = "simple" THEN {"T1"} ELSE {"T1", "T2"}
TopKs == (-1)..MaxStored

\* the values uuid4() returns, in the order it returns them: runs draw at
\* most two paper ids
UuidPool == {1, 2}

SeqsUpTo(S, n) == UNION {[1..k -> S] : k \in 0..n}

\* the papers with at most n chunks
PaperInputs(v, n) == [title : Titles(v), chunks : SeqsUpTo(Contents(v), n)]

\* the lists of at most k papers with at most n chunks in all
RECURSIVE PaperLists(_, _, _)
PaperLists(v, k, n) ==
    IF k = 0 THEN {<<>>}
    ELSE {<<>>} \cup
         UNION {{<<p>> \o rest : rest \in PaperLists(v, k - 1, n - Len(p.chunks))} :
                    p \in PaperInputs(v, n)}

\* the lists of papers that fit into the bounds after `used` uuids and
\* `stored` chunks
Batches(v, used, stored) ==
    PaperLists(v, Cardinality(UuidPool) - used, MaxStored - stored)

NoResp == [success |-> FALSE]

\* What is known of the last call: its arguments and results, and what the
\* services it used did (failed: a write to the store failed; backend: the
\* outcome of the vector search; distances: the distances of the objects of
\* the response; llm: the outcome of the completion call; batch: the papers
\* given to insert_papers; nth: the number of the call, where calls are
\* counted; searches: the search_chunks calls made since the last
\* insert_papers call, where calls are counted; raised: the
\* exception search_chunks caught and logged).
NoCallYet ==
    [op |-> "none", ret |-> TRUE, query |-> <<>>, top_k |-> 0,
     relevant |-> <<>>, resp |-> NoResp, llm_calls |-> 0,
     failed |-> FALSE, backend |-> "none", distances |-> <<>>, llm |-> "none",
     batch |-> <<>>, nth |-> 0, searches |-> {}, raised |-> "none"]

\* init_session_state: an empty conversation, no handler has run
NoEvent == [event |-> "none", shown |-> "none"]
NoIngest ==
    [fn |-> "none", files |-> 0, successful |-> <<>>, failed |-> <<>>,
     total_chunks |-> 0, docs |-> <<>>]
\* The random module's generator as the program sees it: the seed it was
\* last given and the number of values drawn since.  At import it is seeded
\* from the system, that is with some seed.
ImportStates == {[seed |-> s, drawn |-> 0] : s \in {0, 1}}

\* the generator in the runs that draw nothing from it
Unused == [seed |-> 0, drawn |-> 0]

\* the two sessions that share the module's storage instance, each before
\* its call of insert_papers
Callers == {1, 2}
NotCalled == [pc |-> "idle", papers_data |-> <<>>, papers |-> <<>>, chunks |-> <<>>]

\* no button of the chat or gap-analysis tab has been pressed
NoTabInput == [tab |-> "none", requested |-> 0]

\* detect_section_type has not been called
NoSection == [chunk |-> <<>>, chunk_index |-> 0, total_chunks |-> 0, ret |-> "none"]

\* a thread that has not called vectorize
NotVectorizing == [pc |-> "idle", text |-> <<>>, vector |-> <<>>, result |-> <<>>]
AppInit ==
    /\ chat_history = <<>>
    /\ ui = NoEvent
    /\ ingest = NoIngest
    /\ calls = [c \in Callers |-> NotCalled]
    /\ vectorized = <<>>
    /\ vec_calls = [c \in Callers |-> NotVectorizing]
    /\ section_call = NoSection
    /\ tab_input = NoTabInput
    /\ chunk_log = <<>>

StoreInit ==
    /\ papers_file = <<>>
    /\ chunks_file = <<>>
    /\ collection = <<>>
    /\ next_uuid = 0
    /\ last = NoCallYet


(***************************************************************************)
(* Specification of the chunker: a processor is constructed with some      *)
(* (chunk_size, overlap_size) and chunks a text.                            *)
(***************************************************************************)
NoCall == [status |-> "none", chunks |-> <<>>]

InitChunk ==
    /\ \E cfg \in ChunkerConfigs :
          /\ chunk_size = cfg[1]
          /\ overlap_size = cfg[2]
          /\ chunk_in \in TextsFor(cfg[1])
    /\ chunk_out = NoCall
    /\ variant = "simple"
    /\ StoreInit
    /\ AppInit
    /\ rng = Unused

\* one call chunk_text_sliding_window(chunk_in) on the processor
ChunkText ==
    /\ chunk_out.status = "none"
    /\ chunk_out' = chunk_text_sliding_window(chunk_size, overlap_size, chunk_in)
    /\ UNCHANGED <<chunk_size, overlap_size, chunk_in>>
    /\ UNCHANGED <<variant, papers_file, chunks_file, collection, next_uuid, last>>
    /\ UNCHANGED appVars

NextChunk == ChunkText

SpecChunk == InitChunk /\ [][NextChunk]_vars

(***************************************************************************)
(* A session that chunks several texts: each upload constructs a           *)
(* PDFProcessor from the sizes set in the page, and the processor chunks   *)
(* the texts of the uploaded files one after the other                     *)
(***************************************************************************)
MaxChunkCalls == 3

\* the sizes set in the page: without and with overlap, and a step of zero
SessionConfigs ==
    {<<MinChunkWords, 0>>, <<MinChunkWords + 2, 2>>, <<MinChunkWords, MinChunkWords>>}

\* the texts: empty, one word short of a chunk, one chunk, several chunks
SessionTexts ==
    {TightText(0), RaggedText(MinChunkWords - 1), TightText(MinChunkWords),
     RaggedText(2 * MinChunkWords + 3)}

SessionUnchanged ==
    UNCHANGED <<storeVars, last, variant, chat_history, ui, ingest, calls, rng,
                vectorized, vec_calls, section_call, tab_input>>

\* PDFProcessor(chunk_size, overlap_size)
NewProcessor ==
    /\ Len(chunk_log) < MaxChunkCalls
    /\ \E cfg \in SessionConfigs :
          /\ <<chunk_size, overlap_size>> # cfg
          /\ chunk_size' = cfg[1]
          /\ overlap_size' = cfg[2]
    /\ chunk_in' = <<>>
    /\ chunk_out' = NoCall
    /\ UNCHANGED chunk_log
    /\ SessionUnchanged

\* one more call chunk_text_sliding_window(text) on the processor
ChunkNextText ==
    /\ Len(chunk_log) < MaxChunkCalls
    /\ \E text \in SessionTexts :
          LET out == chunk_text_sliding_window(chunk_size, overlap_size, text)
          IN /\ chunk_in' = text
             /\ chunk_out' = out
             /\ chunk_log' = Append(chunk_log,
                                [text |-> text, chunk_size |-> chunk_size,
                                 overlap_size |-> overlap_size, out |-> out])
    /\ UNCHANGED <<chunk_size, overlap_size>>
    /\ SessionUnchanged

InitSession ==
    /\ chunk_size = DefaultChunkSize
    /\ overlap_size = DefaultOverlapSize
    /\ chunk_in = <<>>
    /\ chunk_out = NoCall
    /\ variant = "weaviate"
    /\ StoreInit
    /\ AppInit
    /\ rng = Unused

NextSession == NewProcessor \/ ChunkNextText

SpecSession == InitSession /\ [][NextSession]_vars

(***************************************************************************)
(* SimplePaperStorage (src/simple_storage.py)                              *)
(***************************************************************************)
\* what a file holds after _save_papers / _save_chunks: the dump succeeds,
\* or open() fails and the file is left as it was, or the dump fails after
\* open(.., 'w') truncated the file (it then loads as {}); the exception is
\* logged and swallowed
SaveOutcomes == {"ok", "fail", "torn"}
save_file(outcome, old, new) ==
    IF outcome = "ok" THEN new ELSE IF outcome = "fail" THEN old ELSE <<>>

\* (a store that keeps only the first chunk of a paper)
paper_chunks_first(paper_id, paper) ==
    [idx \in 1..Min(1, Len(paper.chunks)) |->
        [paper_id |-> paper_id, chunk_index |-> idx - 1,
         content |-> paper.chunks[idx], title |-> paper.title]]

\* the chunk records of one paper (lines 106-116)
paper_chunks(paper_id, paper) ==
    [idx \in 1..Len(paper.chunks) |->
        [paper_id |-> paper_id, chunk_index |-> idx - 1,
         content |-> paper.chunks[idx], title |-> paper.title]]

\* the paper record (lines 95-103)
paper_record(paper_id, paper) ==
    [paper_id |-> paper_id, title |-> paper.title,
     chunk_count |-> Len(paper.chunks)]

\* the loop of lines 91-117 over papers_data; uuid4() gives the next fresh id
RECURSIVE insert_loop(_, _, _, _, _)
insert_loop(papers_data, j, uuid, papers, chunks) ==
    IF j > Len(papers_data) THEN [papers |-> papers, chunks |-> chunks]
    ELSE insert_loop(papers_data, j + 1, uuid + 1,
                     Append(papers, paper_record(uuid + 1, papers_data[j])),
                     chunks \o paper_chunks(uuid + 1, papers_data[j]))

\* The calls that read the store write nothing to it, so a run is explored as
\* a sequence of insert_papers calls followed by one reading call.
Ingesting == last.op \in {"none", "insert_papers"}

InsertRet(r) == [NoCallYet EXCEPT !.op = "insert_papers", !.ret = r]

\* SimplePaperStorage.insert_papers(papers_data), a list of papers
InsertPapersSimpleList ==
    /\ variant = "simple"
    /\ Ingesting
    /\ \E papers_data \in Batches(variant, next_uuid, Len(chunks_file)) :
       \E sp \in SaveOutcomes, sc \in SaveOutcomes :
          LET done == insert_loop(papers_data, 1, next_uuid, papers_file, chunks_file)
          IN /\ Len(papers_data) > 0
             /\ papers_file' = save_file(sp, papers_file, done.papers)
             /\ chunks_file' = save_file(sc, chunks_file, done.chunks)
             /\ next_uuid' = next_uuid + Len(papers_data)
             /\ last' = [InsertRet(TRUE) EXCEPT !.failed = (sp # "ok" \/ sc # "ok"),
                                                !.batch = papers_data]
    /\ UNCHANGED <<collection, variant, chunkVars, appVars>>

\* insert_papers(None): the for statement raises, nothing is saved
InsertPapersSimpleNone ==
    /\ variant = "simple"
    /\ Ingesting
    /\ last' = InsertRet(FALSE)
    /\ UNCHANGED <<storeVars, variant, chunkVars, appVars>>

\* str.lower() on the characters of the texts
lower(c) ==
    CASE c = "A" -> "a" [] c = "B" -> "b" [] c = "C" -> "c" [] OTHER -> c
lower_text(text) == [i \in DOMAIN text |-> lower(text[i])]

\* the characters \w matches
WordChars == {"a", "b", "c", "d", "A", "B", "C"}

\* re.findall(r'\w+', text): the maximal runs of word characters, in order
RECURSIVE findall_words(_, _, _, _)
findall_words(text, i, cur, acc) ==
    IF i > Len(text)
    THEN (IF cur = <<>> THEN acc ELSE Append(acc, cur))
    ELSE IF text[i] \in WordChars
         THEN findall_words(text, i + 1, Append(cur, text[i]), acc)
         ELSE findall_words(text, i + 1, <<>>,
                            IF cur = <<>> THEN acc ELSE Append(acc, cur))

\* set(re.findall(r'\w+', text.lower()))
word_set(text) ==
    LET ws == findall_words(lower_text(text), 1, <<>>, <<>>)
    IN {ws[i] : i \in DOMAIN ws}

\* a similarity is the fraction num/den
sim_ge(x, y) == x.num * y.den >= y.num * x.den
sim_gt(x, y) == x.num * y.den > y.num * x.den

\* one result (lines 157-165)
scored_chunk(chunk, overlap, query_words) ==
    [content |-> chunk.content, title |-> chunk.title,
     chunk_index |-> chunk.chunk_index, paper_id |-> chunk.paper_id,
     similarity |-> [num |-> overlap, den |-> Cardinality(query_words)]]

\* (a loop that divides before it looks at the overlap)
RECURSIVE score_chunks_unguarded(_, _, _, _)
score_chunks_unguarded(chunks, k, query_words, results) ==
    IF k > Len(chunks) THEN [results |-> results, raised |-> "none"]
    ELSE LET overlap == Cardinality(query_words \cap word_set(chunks[k].content))
         IN IF Cardinality(query_words) = 0
            THEN [results |-> <<>>, raised |-> "ZeroDivisionError"]
            ELSE score_chunks_unguarded(chunks, k + 1, query_words,
                    IF overlap > 0
                    THEN Append(results, scored_chunk(chunks[k], overlap, query_words))
                    ELSE results)

\* lines 148-166: one result per chunk that shares a word with the query;
\* overlap / len(query_words) raises ZeroDivisionError for an empty set
RECURSIVE score_chunks(_, _, _, _)
score_chunks(chunks, k, query_words, results) ==
    IF k > Len(chunks) THEN [results |-> results, raised |-> "none"]
    ELSE LET overlap == Cardinality(query_words \cap word_set(chunks[k].content))
         IN IF overlap > 0
            THEN (IF Cardinality(query_words) = 0
                  THEN [results |-> <<>>, raised |-> "ZeroDivisionError"]
                  ELSE score_chunks(chunks, k + 1, query_words,
                          Append(results, scored_chunk(chunks[k], overlap, query_words))))
            ELSE score_chunks(chunks, k + 1, query_words, results)

\* x put into a list sorted by similarity, descending, behind its equals
insert_unstable(sorted, x) ==
    LET before == {i \in DOMAIN sorted : sim_gt(sorted[i].similarity, x.similarity)}
        n == Cardinality(before)
    IN SubSeq(sorted, 1, n) \o <<x>> \o SubSeq(sorted, n + 1, Len(sorted))
insert_sorted(sorted, x) ==
    LET before == {i \in DOMAIN sorted : sim_ge(sorted[i].similarity, x.similarity)}
        n == Cardinality(before)
    IN SubSeq(sorted, 1, n) \o <<x>> \o SubSeq(sorted, n + 1, Len(sorted))

\* results.sort(key=similarity, reverse=True): a stable sort
RECURSIVE sort_by_similarity(_, _, _)
sort_by_similarity(results, k, sorted) ==
    IF k > Len(results) THEN sorted
    ELSE sort_by_similarity(results, k + 1, insert_sorted(sorted, results[k]))

\* results[:top_k]
take_all(results, top_k) == results
take(results, top_k) ==
    IF top_k >= 0 THEN SubSeq(results, 1, Min(top_k, Len(results)))
    ELSE SubSeq(results, 1, Max(0, Len(results) + top_k))

\* the exception raised inside the try of search_chunks, "none" if none is
search_chunks_raised(chunks, query) ==
    score_chunks(chunks, 1, word_set(query), <<>>).raised

\* SimplePaperStorage.search_chunks(query, top_k) on the loaded chunks: the
\* sorted results cut to top_k, or [] from the except clause
search_chunks(chunks, query, top_k) ==
    LET scored == score_chunks(chunks, 1, word_set(query), <<>>)
    IN IF scored.raised # "none" THEN <<>>
       ELSE take(sort_by_similarity(scored.results, 1, <<>>), top_k)

\* SimpleRAGQueryManager.search_relevant_chunks -> storage.search_chunks
SearchChunksSimple ==
    /\ variant = "simple"
    /\ Ingesting
    /\ \E query \in Queries(variant), top_k \in TopKs :
          last' = [NoCallYet EXCEPT !.op = "search_chunks", !.query = query,
                                    !.top_k = top_k,
                                    !.relevant = search_chunks(chunks_file, query, top_k),
                                    !.raised = search_chunks_raised(chunks_file, query)]
    /\ UNCHANGED <<storeVars, variant, chunkVars, appVars>>

(***************************************************************************)
(* _format_sources, identical in the three managers                        *)
(***************************************************************************)
\* the citation built from one chunk (lines 324-329)
source_of(chunk) == [title |-> chunk.title, chunk_index |-> chunk.chunk_index]

\* (a loop that never looks at seen_papers)
RECURSIVE format_all(_, _, _, _)
format_all(chunks, k, seen_papers, sources) ==
    IF k > Len(chunks) THEN sources
    ELSE format_all(chunks, k + 1, seen_papers, Append(sources, source_of(chunks[k])))

\* the loop of lines 321-331
RECURSIVE format_loop(_, _, _, _)
format_loop(chunks, k, seen_papers, sources) ==
    IF k > Len(chunks) THEN sources
    ELSE IF chunks[k].paper_id \notin seen_papers
         THEN format_loop(chunks, k + 1, seen_papers \cup {chunks[k].paper_id},
                          Append(sources, source_of(chunks[k])))
         ELSE format_loop(chunks, k + 1, seen_papers, sources)

format_sources(chunks) == format_loop(chunks, 1, {}, <<>>)

paper_ids(chunks) == {chunks[i].paper_id : i \in DOMAIN chunks}

(***************************************************************************)
(* The Weaviate collection behind RAGQueryManager and MockRAGQueryManager  *)
(***************************************************************************)
\* One object per chunk (rag_queries.py lines 59-68).
chunk_object(paper_id, paper, idx) ==
    [paper_id |-> paper_id, chunk_index |-> idx - 1,
     content |-> paper.chunks[idx], title |-> paper.title]

\* the number of insert calls a batch can make
RECURSIVE SumChunks(_)
SumChunks(papers_data) ==
    IF papers_data = <<>> THEN 0
    ELSE Len(Head(papers_data).chunks) + SumChunks(Tail(papers_data))

\* What one collection.data.insert call does: it stores the object, or it
\* raises some error, or it raises an error that names the OpenAI quota.
InsertOutcomes(v) == IF v = "weaviate" THEN {"ok", "error", "quota"} ELSE {"ok", "error"}

\* RAGQueryManager.insert_papers, lines 54-88: paper j, chunk idx, pos the
\* number of insert calls made so far; a quota error ends the call with False,
\* any other error only skips the chunk
RECURSIVE wv_insert_loop(_, _, _, _, _, _, _)
wv_insert_loop(papers_data, j, idx, pos, outcomes, uuid, coll) ==
    IF j > Len(papers_data)
    THEN [coll |-> coll, uuid |-> uuid, ret |-> TRUE, calls |-> pos]
    ELSE IF idx > Len(papers_data[j].chunks)
         THEN wv_insert_loop(papers_data, j + 1, 1, pos, outcomes,
                             IF j < Len(papers_data) THEN uuid + 1 ELSE uuid, coll)
         ELSE IF outcomes[pos + 1] = "quota"
              THEN [coll |-> coll, uuid |-> uuid, ret |-> FALSE, calls |-> pos + 1]
              ELSE wv_insert_loop(papers_data, j, idx + 1, pos + 1, outcomes, uuid,
                      IF outcomes[pos + 1] = "ok"
                      THEN Append(coll, chunk_object(uuid, papers_data[j], idx))
                      ELSE coll)

\* one of the insert calls made raised
insert_failed(outcomes, made) == \E p \in 1..made : outcomes[p] # "ok"

\* the call on a non-empty list: the first paper's uuid is drawn on entry
wv_insert_papers(papers_data, outcomes, uuid, coll) ==
    wv_insert_loop(papers_data, 1, 1, 0, outcomes, uuid + 1, coll)

InsertPapersWeaviate ==
    /\ variant = "weaviate"
    /\ Ingesting
    /\ \E papers_data \in Batches(variant, next_uuid, Len(collection)) :
       \E outcomes \in [1..SumChunks(papers_data) -> InsertOutcomes(variant)] :
          LET done == wv_insert_papers(papers_data, outcomes, next_uuid, collection)
          IN /\ Len(papers_data) > 0
             /\ collection' = done.coll
             /\ next_uuid' = done.uuid
             /\ last' = [InsertRet(done.ret) EXCEPT
                            !.failed = insert_failed(outcomes, done.calls),
                            !.batch = papers_data]
    /\ UNCHANGED <<papers_file, chunks_file, variant, chunkVars, appVars>>

\* MockRAGQueryManager.insert_papers, lines 50-75: insert_with_mock_vectors
\* returns False when the insert raised; the chunk is skipped with a warning
InsertPapersMock ==
    /\ variant = "mock"
    /\ Ingesting
    /\ \E papers_data \in Batches(variant, next_uuid, Len(collection)) :
       \E outcomes \in [1..SumChunks(papers_data) -> InsertOutcomes(variant)] :
          LET done == wv_insert_papers(papers_data, outcomes, next_uuid, collection)
          IN /\ Len(papers_data) > 0
             /\ collection' = done.coll
             /\ next_uuid' = done.uuid
             /\ last' = [InsertRet(done.ret) EXCEPT
                            !.failed = insert_failed(outcomes, done.calls),
                            !.batch = papers_data]
    /\ UNCHANGED <<papers_file, chunks_file, variant, chunkVars, appVars>>

\* The distances the backend reports, in units of 1/DistScale: 0 (the same
\* vector), 1/2, and 3/2 (a distance beyond 1).
Distances == {0, 1, 3}

\* near_text / near_vector with limit: the `limit` nearest objects, nearest
\* first, objects at the same distance in insertion order; dist[i] is the
\* distance of object i from the query
RECURSIVE nearest(_, _, _, _)
nearest(coll, dist, k, found) ==
    IF k > Len(coll) THEN found
    ELSE LET before == {i \in DOMAIN found : found[i].distance <= dist[k]}
             n == Cardinality(before)
         IN nearest(coll, dist, k + 1,
                    SubSeq(found, 1, n)
                        \o <<[properties |-> coll[k], distance |-> dist[k]]>>
                        \o SubSeq(found, n + 1, Len(found)))

near(coll, dist, limit) == take(nearest(coll, dist, 1, <<>>), limit)

\* "similarity": 1 - obj.metadata.distance if obj.metadata.distance else 0
similarity_of(distance) ==
    IF distance # 0 THEN [num |-> DistScale - distance, den |-> DistScale]
    ELSE [num |-> 0, den |-> 1]

\* the chunk_data of one response object (lines 118-126)
chunk_data(obj) ==
    [content |-> obj.properties.content, title |-> obj.properties.title,
     chunk_index |-> obj.properties.chunk_index,
     paper_id |-> obj.properties.paper_id,
     similarity |-> similarity_of(obj.distance)]

\* search_relevant_chunks of RAGQueryManager and MockRAGQueryManager: the
\* results of the response, or [] when the search raised
search_relevant_chunks(backend, coll, dist, top_k) ==
    IF backend = "raise" THEN <<>>
    ELSE LET objects == near(coll, dist, top_k)
         IN [i \in DOMAIN objects |-> chunk_data(objects[i])]

\* the distances of the objects of the response, none when the search raised
response_distances(backend, coll, dist, top_k) ==
    IF backend = "raise" THEN <<>>
    ELSE LET objects == near(coll, dist, top_k)
         IN [i \in DOMAIN objects |-> objects[i].distance]

\* the record of a call with what its services did
Observed(rec, backend, distances, llm) ==
    [rec EXCEPT !.backend = backend, !.distances = distances,
                !.llm = IF rec.llm_calls = 1 THEN llm ELSE "none"]

BackendOutcomes == {"ok", "raise"}
VectorTopKs == {1, TopKResults}

SearchRelevantChunksVector ==
    /\ variant \in {"weaviate", "mock"}
    /\ Ingesting
    /\ \E query \in Queries(variant), top_k \in VectorTopKs,
          backend \in BackendOutcomes, dist \in [DOMAIN collection -> Distances] :
          last' = Observed(
                     [NoCallYet EXCEPT
                        !.op = "search_relevant_chunks", !.query = query,
                        !.top_k = top_k,
                        !.relevant = search_relevant_chunks(backend, collection, dist, top_k)],
                     backend, response_distances(backend, collection, dist, top_k), "none")
    /\ UNCHANGED <<storeVars, variant, chunkVars, appVars>>

(***************************************************************************)
(* chat_with_papers and generate_gap_analysis                              *)
(***************************************************************************)
\* What openai_client.chat.completions.create does: it answers, or raises
\* with a message.
LlmErrors == {"429 quota exceeded", "connection error"}
LlmOutcomes == {"ok"} \cup LlmErrors

NoChatInfo == <<"No relevant information found in the papers">>
NoGapPapers == <<"No relevant papers found for the given topic">>

\* the two early returns on an empty retrieval
chat_empty == [success |-> FALSE, error |-> NoChatInfo, answer |-> "", sources |-> <<>>]
gap_empty == [success |-> FALSE, error |-> NoGapPapers, gaps |-> <<>>, opportunities |-> <<>>]

\* (an except branch that reports only that the call failed)
chat_failed_generic(msg) ==
    [success |-> FALSE, error |-> <<"Error generating answer">>,
     answer |-> "", sources |-> <<>>]

\* the except branches
chat_failed(msg) ==
    [success |-> FALSE, error |-> <<"Error generating answer: ", msg>>,
     answer |-> "", sources |-> <<>>]
gap_failed(msg) ==
    [success |-> FALSE, error |-> <<"Error generating analysis: ", msg>>,
     gaps |-> <<>>, opportunities |-> <<>>]

chat_ok(question, answer, relevant_chunks) ==
    [success |-> TRUE, question |-> question, answer |-> answer,
     sources |-> format_sources(relevant_chunks),
     num_sources |-> Len(relevant_chunks)]
gap_ok(topic, analysis, relevant_chunks) ==
    [success |-> TRUE, topic |-> topic, analysis |-> analysis,
     sources |-> format_sources(relevant_chunks),
     num_papers |-> Cardinality(paper_ids(relevant_chunks))]

\* (a manager without the test for an empty retrieval)
chat_with_papers_unguarded(question, relevant_chunks, llm) ==
    IF llm = "ok"
    THEN [resp |-> chat_ok(question, "completion", relevant_chunks), llm_calls |-> 1]
    ELSE [resp |-> chat_failed(llm), llm_calls |-> 1]

\* RAGQueryManager.chat_with_papers, lines 231-293, after the search
chat_with_papers(question, relevant_chunks, llm) ==
    IF relevant_chunks = <<>> THEN [resp |-> chat_empty, llm_calls |-> 0]
    ELSE IF llm = "ok"
         THEN [resp |-> chat_ok(question, "completion", relevant_chunks), llm_calls |-> 1]
         ELSE [resp |-> chat_failed(llm), llm_calls |-> 1]

\* RAGQueryManager.generate_gap_analysis, lines 153-218, after the search
generate_gap_analysis(topic, relevant_chunks, llm) ==
    IF relevant_chunks = <<>> THEN [resp |-> gap_empty, llm_calls |-> 0]
    ELSE IF llm = "ok"
         THEN [resp |-> gap_ok(topic, "completion", relevant_chunks), llm_calls |-> 1]
         ELSE [resp |-> gap_failed(llm), llm_calls |-> 1]

\* the mock and simple managers build the text themselves: no completion call
chat_with_papers_local(question, relevant_chunks) ==
    IF relevant_chunks = <<>> THEN [resp |-> chat_empty, llm_calls |-> 0]
    ELSE [resp |-> chat_ok(question, <<"excerpts", Min(3, Len(relevant_chunks))>>,
                           relevant_chunks),
          llm_calls |-> 0]

generate_gap_analysis_local(topic, relevant_chunks) ==
    IF relevant_chunks = <<>> THEN [resp |-> gap_empty, llm_calls |-> 0]
    ELSE [resp |-> gap_ok(topic, <<"key terms", Min(5, Len(relevant_chunks))>>,
                          relevant_chunks),
          llm_calls |-> 0]

Answered(op, query, top_k, relevant, out) ==
    [NoCallYet EXCEPT !.op = op, !.query = query, !.top_k = top_k,
                      !.relevant = relevant, !.resp = out.resp,
                      !.llm_calls = out.llm_calls]

ChatWithPapersWeaviate ==
    /\ variant = "weaviate"
    /\ Ingesting
    /\ \E question \in Queries(variant), backend \in BackendOutcomes,
          dist \in [DOMAIN collection -> Distances], llm \in LlmOutcomes :
          LET relevant == search_relevant_chunks(backend, collection, dist, ChatTopK)
          IN last' = Observed(
                        Answered("chat_with_papers", question, ChatTopK, relevant,
                                 chat_with_papers(question, relevant, llm)),
                        backend, response_distances(backend, collection, dist, ChatTopK),
                        llm)
    /\ UNCHANGED <<storeVars, variant, chunkVars, appVars>>

GapAnalysisWeaviate ==
    /\ variant = "weaviate"
    /\ Ingesting
    /\ \E topic \in Queries(variant), backend \in BackendOutcomes,
          dist \in [DOMAIN collection -> Distances], llm \in LlmOutcomes :
          LET relevant == search_relevant_chunks(backend, collection, dist, GapTopK)
          IN last' = Observed(
                        Answered("generate_gap_analysis", topic, GapTopK, relevant,
                                 generate_gap_analysis(topic, relevant, llm)),
                        backend, response_distances(backend, collection, dist, GapTopK),
                        llm)
    /\ UNCHANGED <<storeVars, variant, chunkVars, appVars>>

ChatWithPapersMock ==
    /\ variant = "mock"
    /\ Ingesting
    /\ \E question \in Queries(variant), backend \in BackendOutcomes,
          dist \in [DOMAIN collection -> Distances] :
          LET relevant == search_relevant_chunks(backend, collection, dist, ChatTopK)
          IN last' = Observed(
                        Answered("chat_with_papers", question, ChatTopK, relevant,
                                 chat_with_papers_local(question, relevant)),
                        backend, response_distances(backend, collection, dist, ChatTopK),
                        "none")
    /\ UNCHANGED <<storeVars, variant, chunkVars, appVars>>

GapAnalysisMock ==
    /\ variant = "mock"
    /\ Ingesting
    /\ \E topic \in Queries(variant), backend \in BackendOutcomes,
          dist \in [DOMAIN collection -> Distances] :
          LET relevant == search_relevant_chunks(backend, collection, dist, GapTopK)
          IN last' = Observed(
                        Answered("generate_gap_analysis", topic, GapTopK, relevant,
                                 generate_gap_analysis_local(topic, relevant)),
                        backend, response_distances(backend, collection, dist, GapTopK),
                        "none")
    /\ UNCHANGED <<storeVars, variant, chunkVars, appVars>>

ChatWithPapersSimple ==
    /\ variant = "simple"
    /\ Ingesting
    /\ \E question \in Queries(variant) :
          LET relevant == search_chunks(chunks_file, question, ChatTopK)
          IN last' = Answered("chat_with_papers", question, ChatTopK, relevant,
                              chat_with_papers_local(question, relevant))
    /\ UNCHANGED <<storeVars, variant, chunkVars, appVars>>

GapAnalysisSimple ==
    /\ variant = "simple"
    /\ Ingesting
    /\ \E topic \in Queries(variant) :
          LET relevant == search_chunks(chunks_file, topic, GapTopK)
          IN last' = Answered("generate_gap_analysis", topic, GapTopK, relevant,
                              generate_gap_analysis_local(topic, relevant))
    /\ UNCHANGED <<storeVars, variant, chunkVars, appVars>>

Init ==
    /\ chunk_size = DefaultChunkSize
    /\ overlap_size = DefaultOverlapSize
    /\ chunk_in = <<>>
    /\ chunk_out = NoCall
    /\ variant \in {"weaviate", "mock", "simple"}
    /\ StoreInit
    /\ AppInit
    /\ rng = Unused

Next ==
    \/ InsertPapersSimpleList
    \/ InsertPapersSimpleNone
    \/ InsertPapersWeaviate
    \/ InsertPapersMock
    \/ SearchChunksSimple
    \/ SearchRelevantChunksVector
    \/ ChatWithPapersWeaviate
    \/ ChatWithPapersMock
    \/ ChatWithPapersSimple
    \/ GapAnalysisWeaviate
    \/ GapAnalysisMock
    \/ GapAnalysisSimple

Spec == Init /\ [][Next]_vars

(***************************************************************************)
(* chat_tab of the application (src/app.py, src/app_mock.py): the handler   *)
(* of the Send Question button and of the Clear History button             *)
(***************************************************************************)
MaxTurns == 3

\* str.strip() on the characters of a question
RECURSIVE lstrip(_)
lstrip(text) ==
    IF text # <<>> /\ Head(text) = " " THEN lstrip(Tail(text)) ELSE text
RECURSIVE rstrip(_)
rstrip(text) ==
    IF text # <<>> /\ text[Len(text)] = " "
    THEN rstrip(SubSeq(text, 1, Len(text) - 1)) ELSE text
strip(text) == rstrip(lstrip(text))

\* what the user typed into the text input
Questions == {<<>>, <<" ">>, <<"q">>, <<" ", "r">>}

user_message(question) == [role |-> "user", content |-> question]
assistant_message(answer) == [role |-> "assistant", content |-> answer]

\* (a handler that keeps the question of a failed turn)
pop_nothing(history) == history

\* chat_history.pop()
pop(history) == SubSeq(history, 1, Len(history) - 1)

\* What chat_with_papers(question) does for the page: it returns a response
\* (an answer, the empty-retrieval failure, a failed completion), or raises.
Answers == {"A1", "A2"}
ChatOutcomes(question) ==
    {[kind |-> "result", result |-> chat_ok(question, answer, <<>>)] : answer \in Answers}
        \cup {[kind |-> "result", result |-> chat_empty],
              [kind |-> "result", result |-> chat_failed("connection error")],
              [kind |-> "raise", result |-> NoResp]}

\* The body of `if st.button("Send Question")`, lines 547-587.  st.rerun()
\* ends the script run with an exception that `except Exception` does not
\* catch.
send_question(history, question, outcome) ==
    IF strip(question) = <<>>
    THEN [history |-> history, shown |-> "warning"]
    ELSE LET asked == Append(history, user_message(question))
         IN IF outcome.kind = "raise"
            THEN [history |-> pop(asked), shown |-> "error"]
            ELSE IF outcome.result.success
                 THEN [history |-> Append(asked, assistant_message(outcome.result.answer)),
                       shown |-> "rerun"]
                 ELSE [history |-> pop(asked), shown |-> "error"]

SendQuestion ==
    /\ Len(chat_history) < 2 * MaxTurns
    /\ \E question \in Questions :
       \E outcome \in ChatOutcomes(question) :
          LET done == send_question(chat_history, question, outcome)
          IN /\ chat_history' = done.history
             /\ ui' = [event |-> "send", shown |-> done.shown]
    /\ UNCHANGED <<storeVars, last, variant, chunkVars, ingest, calls, rng, vectorized, stepVars>>

\* `if st.button("Clear History")`, lines 519-521, shown only for a
\* non-empty history
ClearHistory ==
    /\ chat_history # <<>>
    /\ chat_history' = <<>>
    /\ ui' = [event |-> "clear", shown |-> "rerun"]
    /\ UNCHANGED <<storeVars, last, variant, chunkVars, ingest, calls, rng, vectorized, stepVars>>

\* app.py runs the Weaviate manager, app_mock.py the mock manager
InitChat ==
    /\ chunk_size = DefaultChunkSize
    /\ overlap_size = DefaultOverlapSize
    /\ chunk_in = <<>>
    /\ chunk_out = NoCall
    /\ variant \in {"weaviate", "mock"}
    /\ StoreInit
    /\ AppInit
    /\ rng = Unused

NextChat == SendQuestion \/ ClearHistory

SpecChat == InitChat /\ [][NextChat]_vars

(***************************************************************************)
(* The chat tab and the gap-analysis tab with their number inputs          *)
(* (src/app.py), on a collection that holds one paper                      *)
(***************************************************************************)
MaxPaperChunks == 6

\* st.number_input("Sources", min_value=3, max_value=15)
MinSources == 3
MaxSources == 15
\* st.number_input("Chunks to analyze", min_value=5, max_value=20)
MinGapChunks == 5
MaxGapChunks == 20

\* the paper with n chunks
LongPaper(n) == [title |-> "T1", chunks |-> [i \in 1..n |-> TextABC]]

\* the distances of the stored chunks from a query: all the same
EvenDistances(coll) == {[i \in DOMAIN coll |-> d] : d \in Distances}

TabUnchanged ==
    UNCHANGED <<papers_file, chunks_file, variant, chunkVars, ingest, calls, rng,
                vectorized, vec_calls, section_call, chunk_log>>

\* rag_manager.insert_papers on one paper, every chunk insert succeeding
InsertLongPaper ==
    /\ collection = <<>>
    /\ last.op = "none"
    /\ \E n \in 1..MaxPaperChunks :
          LET done == wv_insert_papers(<<LongPaper(n)>>, [i \in 1..n |-> "ok"],
                                       next_uuid, collection)
          IN /\ collection' = done.coll
             /\ next_uuid' = done.uuid
             /\ last' = [InsertRet(done.ret) EXCEPT !.batch = <<LongPaper(n)>>]
    /\ UNCHANGED <<chat_history, ui, tab_input>>
    /\ TabUnchanged

\* chat_tab, lines 530-587: the "Sources" input and the Send Question button;
\* chat_with_papers is called with the question only
AskQuestion ==
    /\ tab_input = NoTabInput
    /\ \E num_sources \in MinSources..MaxSources, question \in Questions,
          backend \in BackendOutcomes, dist \in EvenDistances(collection),
          llm \in LlmOutcomes :
          LET relevant == search_relevant_chunks(backend, collection, dist, ChatTopK)
              out == chat_with_papers(question, relevant, llm)
              done == send_question(chat_history, question,
                                    [kind |-> "result", result |-> out.resp])
          IN /\ tab_input' = [tab |-> "chat", requested |-> num_sources]
             /\ chat_history' = done.history
             /\ ui' = [event |-> "send", shown |-> done.shown]
             /\ last' = IF strip(question) = <<>> THEN last
                        ELSE Observed(
                                Answered("chat_with_papers", question, ChatTopK,
                                         relevant, out),
                                backend,
                                response_distances(backend, collection, dist, ChatTopK),
                                llm)
    /\ UNCHANGED <<collection, next_uuid>>
    /\ TabUnchanged

\* gap_analysis_tab, lines 396-432: the "Chunks to analyze" input and the
\* Analyze button; generate_gap_analysis is called with the focus area only
AnalyzeGaps ==
    /\ tab_input = NoTabInput
    /\ \E num_chunks \in MinGapChunks..MaxGapChunks, focus_area \in {<<>>, <<"q">>},
          backend \in BackendOutcomes, dist \in EvenDistances(collection),
          llm \in LlmOutcomes :
          LET topic == IF focus_area # <<>> THEN focus_area ELSE <<"research">>
              relevant == search_relevant_chunks(backend, collection, dist, GapTopK)
              out == generate_gap_analysis(topic, relevant, llm)
          IN /\ tab_input' = [tab |-> "gap", requested |-> num_chunks]
             /\ ui' = [event |-> "analyze",
                       shown |-> IF out.resp.success THEN "analysis" ELSE "error"]
             /\ last' = Observed(
                           Answered("generate_gap_analysis", topic, GapTopK,
                                    relevant, out),
                           backend,
                           response_distances(backend, collection, dist, GapTopK),
                           llm)
    /\ UNCHANGED <<collection, next_uuid, chat_history>>
    /\ TabUnchanged

InitTabs ==
    /\ chunk_size = DefaultChunkSize
    /\ overlap_size = DefaultOverlapSize
    /\ chunk_in = <<>>
    /\ chunk_out = NoCall
    /\ variant = "weaviate"
    /\ StoreInit
    /\ AppInit
    /\ rng = Unused

NextTabs == InsertLongPaper \/ AskQuestion \/ AnalyzeGaps

SpecTabs == InitTabs /\ [][NextTabs]_vars

(***************************************************************************)
(* SimplePaperStorage as one session uses it: insert_papers calls and the  *)
(* reading calls search_chunks, get_collection_stats and get_all_papers,   *)
(* in any order                                                            *)
(***************************************************************************)
MaxCalls == 4

\* the inputs of the calls: one paper of one or two chunks, three queries
\* (one without a word), and the top_k values 1 and the default
CountedBatches ==
    {<<[title |-> "T1", chunks |-> cs]>> : cs \in {<<TextA>>, <<TextABC, TextA>>}}
CountedQueries == {QueryA, QueryABC, <<>>}
CountedTopKs == {1, TopKResults}

\* (a file opened for writing by the reader)
load_file_truncating(file) == [data |-> <<>>, file |-> <<>>]

\* _load_papers / _load_chunks: open(file, 'r') and json.load(f); data is
\* the dictionary returned and file what the file holds afterwards.  A file
\* that a failed dump left truncated cannot be parsed and loads as {}.
load_file(file) == [data |-> file, file |-> file]

\* get_collection_stats on the loaded dictionaries
collection_stats(papers, chunks) ==
    [total_papers |-> Len(papers), total_chunks |-> Len(chunks)]

\* get_all_papers on the loaded dictionary: the id put in front of the data
\* of each paper
all_papers(papers) ==
    [i \in DOMAIN papers |-> [paper_id |-> papers[i].paper_id,
                              title |-> papers[i].title,
                              chunk_count |-> papers[i].chunk_count]]

CountedCall(op) ==
    [NoCallYet EXCEPT !.op = op, !.nth = last.nth + 1, !.searches = last.searches]

ReadUnchanged == UNCHANGED <<collection, next_uuid, variant, chunkVars, appVars>>

\* insert_papers(papers_data), a list of papers
InsertPapersCounted ==
    /\ last.nth < MaxCalls
    /\ \E papers_data \in CountedBatches :
       \E sp \in SaveOutcomes, sc \in SaveOutcomes :
          LET papers == load_file(papers_file)
              chunks == load_file(chunks_file)
              done == insert_loop(papers_data, 1, next_uuid, papers.data, chunks.data)
          IN /\ Len(papers_data) > 0
             /\ papers_file' = save_file(sp, papers.file, done.papers)
             /\ chunks_file' = save_file(sc, chunks.file, done.chunks)
             /\ next_uuid' = next_uuid + Len(papers_data)
             /\ last' = [CountedCall("insert_papers") EXCEPT
                            !.failed = (sp # "ok" \/ sc # "ok"),
                            !.batch = papers_data, !.searches = {}]
    /\ UNCHANGED <<collection, variant, chunkVars, appVars>>

\* search_chunks(query, top_k)
SearchChunks ==
    /\ last.nth < MaxCalls
    /\ \E query \in CountedQueries, top_k \in CountedTopKs :
          LET chunks == load_file(chunks_file)
              results == search_chunks(chunks.data, query, top_k)
          IN /\ chunks_file' = chunks.file
             /\ last' = [CountedCall("search_chunks") EXCEPT
                            !.query = query, !.top_k = top_k, !.relevant = results,
                            !.raised = search_chunks_raised(chunks.data, query),
                            !.searches = @ \cup {[nth |-> last.nth + 1, query |-> query,
                                                  top_k |-> top_k, results |-> results]}]
    /\ UNCHANGED papers_file
    /\ ReadUnchanged

\* get_collection_stats()
GetCollectionStats ==
    /\ last.nth < MaxCalls
    /\ LET papers == load_file(papers_file)
           chunks == load_file(chunks_file)
       IN /\ papers_file' = papers.file
          /\ chunks_file' = chunks.file
          /\ last' = [CountedCall("get_collection_stats") EXCEPT
                         !.resp = collection_stats(papers.data, chunks.data)]
    /\ ReadUnchanged

\* get_all_papers()
GetAllPapers ==
    /\ last.nth < MaxCalls
    /\ LET papers == load_file(papers_file)
       IN /\ papers_file' = papers.file
          /\ last' = [CountedCall("get_all_papers") EXCEPT
                         !.relevant = all_papers(papers.data)]
    /\ UNCHANGED chunks_file
    /\ ReadUnchanged

InitRead ==
    /\ chunk_size = DefaultChunkSize
    /\ overlap_size = DefaultOverlapSize
    /\ chunk_in = <<>>
    /\ chunk_out = NoCall
    /\ variant = "simple"
    /\ StoreInit
    /\ AppInit
    /\ rng = Unused

NextRead ==
    \/ InsertPapersCounted
    \/ SearchChunks
    \/ GetCollectionStats
    \/ GetAllPapers

SpecRead == InitRead /\ [][NextRead]_vars

(***************************************************************************)
(* Batch ingestion: PDFProcessor.process_directory (src/pdf_processor.py)  *)
(* and process_uploaded_papers (src/app.py)                                *)
(***************************************************************************)
MaxDocs == 3

\* process_paper wants at least this many characters of extracted text
MinTextChars == 100

\* the text made of n filler characters, words of five letters
Pad(n) == [i \in 1..n |-> IF i % 6 = 0 THEN " " ELSE "x"]

\* the texts extracted from the files: one character short of the minimum
\* between surrounding whitespace, and exactly the minimum
ShortRawText == <<" ", " ">> \o Pad(MinTextChars - 1) \o <<" ", " ">>
EnoughRawText == <<" ">> \o Pad(MinTextChars) \o <<" ">>

\* What happens to one document: both extractors fail ("unreadable") or one
\* returns raw_text; chunks are the chunks of the cleaned text; then, in the
\* application, each chunk insert has an outcome and removing the temporary
\* file succeeds or raises.
UnlinkOutcomes == {"ok", "raise"}
DocChunks == {<<>>, <<TextABC>>}
DocEnvs ==
    {[pdf |-> "unreadable", raw_text |-> <<>>, chunks |-> <<>>, inserts |-> <<>>,
      unlink |-> "ok"],
     [pdf |-> "ok", raw_text |-> ShortRawText, chunks |-> <<>>, inserts |-> <<>>,
      unlink |-> "ok"]}
      \cup UNION {[pdf : {"ok"}, raw_text : {EnoughRawText}, chunks : {cs},
                   inserts : [1..Len(cs) -> InsertOutcomes("weaviate")],
                   unlink : UnlinkOutcomes] : cs \in DocChunks}

\* (the length test made on the text as extracted)
process_paper_unstripped(doc) ==
    IF doc.pdf = "unreadable"
    THEN [status |-> "raised", error |-> "Could not extract text", chunks |-> <<>>]
    ELSE IF doc.raw_text = <<>> \/ Len(doc.raw_text) < MinTextChars
         THEN [status |-> "raised", error |-> "Insufficient text", chunks |-> <<>>]
         ELSE [status |-> "returned", error |-> "", chunks |-> doc.chunks]

\* process_paper, lines 338-392: extract_text_from_pdf raises when both
\* extractors fail; too little text raises; otherwise one chunk object is
\* returned for each chunk
process_paper(doc) ==
    IF doc.pdf = "unreadable"
    THEN [status |-> "raised", error |-> "Could not extract text", chunks |-> <<>>]
    ELSE IF doc.raw_text = <<>> \/ Len(strip(doc.raw_text)) < MinTextChars
         THEN [status |-> "raised", error |-> "Insufficient text", chunks |-> <<>>]
         ELSE [status |-> "returned", error |-> "", chunks |-> doc.chunks]

\* the documents of a batch, document k named k
DocBatches == UNION {[1..n -> DocEnvs] : n \in 0..MaxDocs}

\* process_directory, the loop of lines 417-430: successful holds the keys of
\* results, failed the entries of errors
RECURSIVE directory_loop(_, _, _)
directory_loop(docs, k, acc) ==
    IF k > Len(docs) THEN acc
    ELSE LET chunks == process_paper(docs[k])
         IN IF chunks.status = "raised"
            THEN directory_loop(docs, k + 1,
                     [acc EXCEPT !.failed = Append(@, [name |-> k, error |-> chunks.error])])
            ELSE directory_loop(docs, k + 1,
                     [acc EXCEPT !.successful = Append(@, k),
                                 !.total_chunks = @ + Len(chunks.chunks)])

process_directory(docs) ==
    directory_loop(docs, 1, [NoIngest EXCEPT !.fn = "process_directory",
                                             !.files = Len(docs), !.docs = docs])

ProcessDirectory ==
    /\ ingest.fn = "none"
    /\ \E docs \in DocBatches : ingest' = process_directory(docs)
    /\ UNCHANGED <<storeVars, last, variant, chunkVars, chat_history, ui, calls>>
    /\ UNCHANGED <<rng, vectorized, stepVars>>

\* the paper_data built for one uploaded file (lines 238-245)
uploaded_paper(k, doc) == [title |-> k, chunks |-> doc.chunks]

\* process_uploaded_papers, the loop of lines 211-264.  manual: a title or
\* authors were typed in, and metadata is then a dict, whose attribute
\* .title does not exist.  The value insert_papers returns is not looked at.
RECURSIVE upload_loop(_, _, _, _, _, _)
upload_loop(docs, k, manual, coll, uuid, acc) ==
    IF k > Len(docs) THEN [coll |-> coll, uuid |-> uuid, acc |-> acc]
    ELSE IF process_paper(docs[k]).status = "raised"
         THEN upload_loop(docs, k + 1, manual, coll, uuid,
                  [acc EXCEPT !.failed = Append(@, [name |-> k,
                                                    error |-> process_paper(docs[k]).error])])
         ELSE IF manual
              THEN upload_loop(docs, k + 1, manual, coll, uuid,
                       [acc EXCEPT !.failed = Append(@, [name |-> k, error |-> "AttributeError"])])
              ELSE LET done == wv_insert_papers(<<uploaded_paper(k, docs[k])>>,
                                                docs[k].inserts, uuid, coll)
                       counted == [acc EXCEPT !.successful = Append(@, k),
                                              !.total_chunks = @ + Len(docs[k].chunks)]
                   IN upload_loop(docs, k + 1, manual, done.coll, done.uuid,
                          IF docs[k].unlink = "ok" THEN counted
                          ELSE [counted EXCEPT
                                  !.failed = Append(@, [name |-> k, error |-> "unlink"])])

process_uploaded_papers(docs, manual, coll, uuid) ==
    upload_loop(docs, 1, manual, coll, uuid,
                [NoIngest EXCEPT !.fn = "process_uploaded_papers", !.files = Len(docs),
                                 !.docs = docs])

ProcessUploadedPapers ==
    /\ ingest.fn = "none"
    /\ variant = "weaviate"
    /\ \E docs \in DocBatches, manual \in BOOLEAN :
          LET done == process_uploaded_papers(docs, manual, collection, next_uuid)
          IN /\ ingest' = done.acc
             /\ collection' = done.coll
             /\ next_uuid' = done.uuid
             /\ ui' = [event |-> "upload", shown |-> "rerun"]
    /\ UNCHANGED <<papers_file, chunks_file, last, variant, chunkVars, chat_history, calls>>
    /\ UNCHANGED <<rng, vectorized, stepVars>>

InitBatch ==
    /\ chunk_size = DefaultChunkSize
    /\ overlap_size = DefaultOverlapSize
    /\ chunk_in = <<>>
    /\ chunk_out = NoCall
    /\ variant = "weaviate"
    /\ StoreInit
    /\ AppInit
    /\ rng = Unused

NextBatch == ProcessDirectory \/ ProcessUploadedPapers

SpecBatch == InitBatch /\ [][NextBatch]_vars

(***************************************************************************)
(* Two insert_papers calls on the one SimplePaperStorage of the module,    *)
(* made by two sessions, each a thread of its own; the steps of a call are  *)
(* the reads and writes of the two files                                   *)
(***************************************************************************)
\* the batches the sessions insert: one paper with one or two chunks
CallBatches ==
    {<<[title |-> t, chunks |-> cs]>> :
        t \in {"T1", "T2"}, cs \in {<<TextA>>, <<TextA, TextD>>}}

OtherVarsUnchanged ==
    UNCHANGED <<collection, last, variant, chunkVars, chat_history, ui, ingest,
                rng, vectorized, stepVars>>

\* insert_papers(papers_data) is entered
EnterInsert(c) ==
    /\ calls[c].pc = "idle"
    /\ \E papers_data \in CallBatches :
          calls' = [calls EXCEPT ![c] = [NotCalled EXCEPT !.pc = "entered",
                                                          !.papers_data = papers_data]]
    /\ UNCHANGED <<storeVars>>
    /\ OtherVarsUnchanged

\* papers = self._load_papers()
LoadPapers(c) ==
    /\ calls[c].pc = "entered"
    /\ calls' = [calls EXCEPT ![c].pc = "papers_loaded", ![c].papers = papers_file]
    /\ UNCHANGED <<storeVars>>
    /\ OtherVarsUnchanged

\* chunks = self._load_chunks(), and the loop over papers_data, which works on
\* the loaded dictionaries only
LoadChunksAndAdd(c) ==
    /\ calls[c].pc = "papers_loaded"
    /\ LET done == insert_loop(calls[c].papers_data, 1, next_uuid,
                               calls[c].papers, chunks_file)
       IN calls' = [calls EXCEPT ![c].pc = "added", ![c].papers = done.papers,
                                 ![c].chunks = done.chunks]
    /\ next_uuid' = next_uuid + Len(calls[c].papers_data)
    /\ UNCHANGED <<papers_file, chunks_file, collection>>
    /\ OtherVarsUnchanged

\* _save_papers: open(papers_file, 'w') empties the file
OpenPapers(c) ==
    /\ calls[c].pc = "added"
    /\ papers_file' = <<>>
    /\ calls' = [calls EXCEPT ![c].pc = "papers_open"]
    /\ UNCHANGED <<chunks_file, collection, next_uuid>>
    /\ OtherVarsUnchanged

\* _save_papers: json.dump(papers, f) and the file is closed
DumpPapers(c) ==
    /\ calls[c].pc = "papers_open"
    /\ papers_file' = calls[c].papers
    /\ calls' = [calls EXCEPT ![c].pc = "papers_saved"]
    /\ UNCHANGED <<chunks_file, collection, next_uuid>>
    /\ OtherVarsUnchanged

\* _save_chunks: open(chunks_file, 'w') empties the file
OpenChunks(c) ==
    /\ calls[c].pc = "papers_saved"
    /\ chunks_file' = <<>>
    /\ calls' = [calls EXCEPT ![c].pc = "chunks_open"]
    /\ UNCHANGED <<papers_file, collection, next_uuid>>
    /\ OtherVarsUnchanged

\* _save_chunks: json.dump(chunks, f), the file is closed, and insert_papers
\* returns True
DumpChunksAndReturn(c) ==
    /\ calls[c].pc = "chunks_open"
    /\ chunks_file' = calls[c].chunks
    /\ calls' = [calls EXCEPT ![c].pc = "returned_true"]
    /\ UNCHANGED <<papers_file, collection, next_uuid>>
    /\ OtherVarsUnchanged

InitConc ==
    /\ chunk_size = DefaultChunkSize
    /\ overlap_size = DefaultOverlapSize
    /\ chunk_in = <<>>
    /\ chunk_out = NoCall
    /\ variant = "simple"
    /\ StoreInit
    /\ AppInit
    /\ rng = Unused

NextConc ==
    \E c \in Callers :
        \/ EnterInsert(c)
        \/ LoadPapers(c)
        \/ LoadChunksAndAdd(c)
        \/ OpenPapers(c)
        \/ DumpPapers(c)
        \/ OpenChunks(c)
        \/ DumpChunksAndReturn(c)

SpecConc == InitConc /\ [][NextConc]_vars

(***************************************************************************)
(* MockVectorizer.vectorize (src/mock_vectorizer.py)                       *)
(***************************************************************************)
VectorDim == 3
MaxVectorized == 3

\* The seeds are the values of eight hexadecimal digits; the model keeps
\* SeedSpace of them.
SeedSpace == 16

\* Vector entries before normalisation are counted in units of 1/Unit.
Unit == 255

\* the characters of the texts: two letters and an unpaired surrogate
Ord(c) == CASE c = "a" -> 97 [] c = "b" -> 98 [] c = "S" -> 55296

\* the texts: the empty text, short texts, a text longer than the vector, and
\* texts with an unpaired surrogate
LongText == [i \in 1..(VectorDim + 1) |-> IF i = 1 THEN "b" ELSE "a"]
VectorTexts ==
    {<<>>, <<"a">>, <<"a", "b">>, <<"b", "a">>, LongText, <<"S">>, <<"a", "S">>}

\* text.encode(): UTF-8 has no encoding of an unpaired surrogate
Encodable(text) == \A i \in DOMAIN text : text[i] # "S"

\* int(hashlib.md5(text.encode()).hexdigest()[:8], 16): some function of the
\* characters of the text into the seeds
RECURSIVE digest(_, _)
digest(text, h) ==
    IF text = <<>> THEN h
    ELSE digest(Tail(text), (h * 31 + Ord(Head(text))) % SeedSpace)
text_seed(text) == digest(text, 7)

\* (a generator that is not seeded again)
seed_ignored(state, seed) == state

\* random.seed(seed)
seed_rng(state, seed) == [seed |-> seed, drawn |-> 0]

\* random.uniform(-1, 1): the value is fixed by the seed and by the number of
\* values drawn since seeding
uniform(state) ==
    [val |-> ((state.seed * 37 + state.drawn * 101 + 11) % (2 * Unit + 1)) - Unit,
     state |-> [state EXCEPT !.drawn = @ + 1]]

\* the loop of lines 40-48: entry i (from 0) is made from character i of the
\* text while there is one, and drawn from the generator after that
RECURSIVE fill(_, _, _, _)
fill(text, i, state, vector) ==
    IF i >= VectorDim THEN [vector |-> vector, state |-> state]
    ELSE IF i < Len(text)
         THEN fill(text, i + 1, state, Append(vector, 2 * Ord(text[i + 1]) - Unit))
         ELSE LET u == uniform(state)
              IN fill(text, i + 1, u.state, Append(vector, u.val))

RECURSIVE sum_squares(_)
sum_squares(vector) ==
    IF vector = <<>> THEN 0
    ELSE Head(vector) * Head(vector) + sum_squares(Tail(vector))

\* vector / norm if norm > 0: an entry is kept as the pair of its value and
\* the squared norm it is divided by (1 when the vector is left as it is)
normalize(vector) ==
    LET n2 == sum_squares(vector)
    IN [i \in DOMAIN vector |->
          [val |-> vector[i], norm2 |-> IF n2 > 0 THEN n2 ELSE 1]]

\* vectorize(text) on the generator in `state`
vectorize(text, state) ==
    IF ~Encodable(text)
    THEN [status |-> "UnicodeEncodeError", vector |-> <<>>, state |-> state]
    ELSE LET filled == fill(text, 0, seed_rng(state, text_seed(text)), <<>>)
         IN [status |-> "returned", vector |-> normalize(filled.vector),
             state |-> filled.state]

\* one call of mock_vectorizer.vectorize, made after the earlier calls have
\* returned
Vectorize ==
    /\ Len(vectorized) < MaxVectorized
    /\ \E text \in VectorTexts :
          LET done == vectorize(text, rng)
          IN /\ rng' = done.state
             /\ vectorized' = Append(vectorized,
                                [text |-> text, status |-> done.status,
                                 vector |-> done.vector])
    /\ UNCHANGED <<storeVars, last, variant, chunkVars, chat_history, ui, ingest, calls,
                   stepVars>>

InitVec ==
    /\ chunk_size = DefaultChunkSize
    /\ overlap_size = DefaultOverlapSize
    /\ chunk_in = <<>>
    /\ chunk_out = NoCall
    /\ variant = "mock"
    /\ StoreInit
    /\ AppInit
    /\ rng \in ImportStates

NextVec == Vectorize

SpecVec == InitVec /\ [][NextVec]_vars

(***************************************************************************)
(* Two vectorize calls on the module's mock_vectorizer, each in a thread   *)
(* of its own (two sessions searching): the steps of a call are its calls  *)
(* of the random module, which all threads share                           *)
(***************************************************************************)
\* the texts of the calls: every text shorter than the vector
ShortTexts == {t \in VectorTexts : Encodable(t) /\ Len(t) < VectorDim}

VecUnchanged ==
    UNCHANGED <<storeVars, last, variant, chunkVars, chat_history, ui, ingest,
                calls, vectorized, section_call, tab_input, chunk_log>>

\* lines 33-37: the seed is made from the text and random.seed(seed) is called
SeedCall(c) ==
    /\ vec_calls[c].pc = "idle"
    /\ \E text \in ShortTexts :
          /\ vec_calls' = [vec_calls EXCEPT
                ![c] = [NotVectorizing EXCEPT !.pc = "seeded", !.text = text]]
          /\ rng' = seed_rng(rng, text_seed(text))
    /\ VecUnchanged

\* one turn of the loop of lines 41-49 that takes its value from the text
EntryFromText(c) ==
    /\ vec_calls[c].pc = "seeded"
    /\ Len(vec_calls[c].vector) < VectorDim
    /\ Len(vec_calls[c].vector) < Len(vec_calls[c].text)
    /\ LET i == Len(vec_calls[c].vector)
       IN vec_calls' = [vec_calls EXCEPT
             ![c].vector = Append(@, 2 * Ord(vec_calls[c].text[i + 1]) - Unit)]
    /\ UNCHANGED rng
    /\ VecUnchanged

\* one turn of the loop that takes its value from random.uniform(-1, 1)
EntryFromRandom(c) ==
    /\ vec_calls[c].pc = "seeded"
    /\ Len(vec_calls[c].vector) < VectorDim
    /\ Len(vec_calls[c].vector) >= Len(vec_calls[c].text)
    /\ LET u == uniform(rng)
       IN /\ vec_calls' = [vec_calls EXCEPT ![c].vector = Append(@, u.val)]
          /\ rng' = u.state
    /\ VecUnchanged

\* lines 52-57: the vector is normalised and returned
ReturnVector(c) ==
    /\ vec_calls[c].pc = "seeded"
    /\ Len(vec_calls[c].vector) = VectorDim
    /\ vec_calls' = [vec_calls EXCEPT ![c].pc = "returned",
                                      ![c].result = normalize(vec_calls[c].vector)]
    /\ UNCHANGED rng
    /\ VecUnchanged

InitVecConc ==
    /\ chunk_size = DefaultChunkSize
    /\ overlap_size = DefaultOverlapSize
    /\ chunk_in = <<>>
    /\ chunk_out = NoCall
    /\ variant = "mock"
    /\ StoreInit
    /\ AppInit
    /\ rng \in ImportStates

NextVecConc ==
    \E c \in Callers :
        \/ SeedCall(c)
        \/ EntryFromText(c)
        \/ EntryFromRandom(c)
        \/ ReturnVector(c)

SpecVecConc == InitVecConc /\ [][NextVecConc]_vars

(***************************************************************************)
(* PDFProcessor.detect_section_type (src/pdf_processor.py)                 *)
(* A chunk is a sequence of one-character strings.                         *)
(***************************************************************************)
MaxTotalChunks == 12

\* the length of the prefix of the chunk that is searched: chunk_lower[:100]
SniffChars == 100

W_abstract == <<"a", "b", "s", "t", "r", "a", "c", "t">>
W_method == <<"m", "e", "t", "h", "o", "d">>
W_methodology == <<"m", "e", "t", "h", "o", "d", "o", "l", "o", "g", "y">>
W_result == <<"r", "e", "s", "u", "l", "t">>
W_finding == <<"f", "i", "n", "d", "i", "n", "g">>
W_discussion == <<"d", "i", "s", "c", "u", "s", "s", "i", "o", "n">>
W_conclusion == <<"c", "o", "n", "c", "l", "u", "s", "i", "o", "n">>
W_reference == <<"r", "e", "f", "e", "r", "e", "n", "c", "e">>
W_bibliography == <<"b", "i", "b", "l", "i", "o", "g", "r", "a", "p", "h", "y">>

\* str.lower() on the letters the chunks use
lower_letter(c) ==
    CASE c = "M" -> "m" [] c = "R" -> "r" [] c = "A" -> "a" [] OTHER -> c
chunk_lower_of(chunk) == [i \in DOMAIN chunk |-> lower_letter(chunk[i])]

\* text[:n]
prefix(text, n) == SubSeq(text, 1, Min(n, Len(text)))

\* sub in text
contains(sub, text) ==
    \E i \in 1..(Len(text) - Len(sub) + 1) :
        SubSeq(text, i, i + Len(sub) - 1) = sub

\* the chunks: with no keyword, with each keyword, with capitals, with two
\* keywords, with the keyword after "abstract", and with a keyword that ends
\* at or crosses the end of the searched prefix
SectionChunks ==
    {Pad(5), Pad(SniffChars + 5),
     W_abstract \o Pad(3), <<"A">> \o Tail(W_abstract),
     <<"M">> \o Tail(W_method) \o <<"s">>, W_methodology,
     <<"R">> \o Tail(W_result) \o <<"s">>, Pad(2) \o W_finding \o <<"s">>,
     W_discussion, Pad(4) \o W_conclusion, W_reference \o <<"s">>, W_bibliography,
     W_result \o <<" ">> \o W_method,
     W_conclusion \o <<" ">> \o W_reference,
     W_abstract \o <<" ">> \o W_method,
     Pad(SniffChars - Len(W_method)) \o W_method,
     Pad(SniffChars - Len(W_method) + 1) \o W_method,
     Pad(SniffChars) \o W_result}

\* (the keywords looked for before the position)
detect_keywords_first(chunk, chunk_index, total_chunks) ==
    LET head == prefix(chunk_lower_of(chunk), SniffChars)
    IN IF contains(W_method, head) \/ contains(W_methodology, head) THEN "methods"
       ELSE IF contains(W_result, head) \/ contains(W_finding, head) THEN "results"
       ELSE IF contains(W_discussion, head) \/ contains(W_conclusion, head)
            THEN "discussion"
       ELSE IF contains(W_reference, head) \/ contains(W_bibliography, head)
            THEN "references"
       ELSE IF chunk_index = 0 \/ 10 * chunk_index < total_chunks
            THEN (IF contains(W_abstract, head) THEN "abstract" ELSE "introduction")
       ELSE IF 10 * chunk_index < 3 * total_chunks THEN "introduction"
       ELSE IF 10 * chunk_index < 7 * total_chunks THEN "body"
       ELSE "conclusion"

\* detect_section_type(chunk, chunk_index, total_chunks).  The comparisons
\* chunk_index < total_chunks * 0.1 (0.3, 0.7) are made in double precision;
\* for every total_chunks below 3000 and every index they have the value of
\* the exact comparison 10 * chunk_index < total_chunks (3 *, 7 *): the
\* doubles 0.1, 0.3, 0.7 are (2^55 + 2) / (10 * 2^55), (3 * 2^54 - 2) /
\* (10 * 2^54), (7 * 2^52 - 2) / (10 * 2^52), and rounding the product to 53
\* bits takes it back to the integer wherever the exact product is one.
detect_section_type(chunk, chunk_index, total_chunks) ==
    LET chunk_lower == chunk_lower_of(chunk)
        head == prefix(chunk_lower, SniffChars)
    IN IF chunk_index = 0 \/ 10 * chunk_index < total_chunks
       THEN (IF contains(W_abstract, head) THEN "abstract" ELSE "introduction")
       ELSE IF contains(W_method, head) \/ contains(W_methodology, head) THEN "methods"
       ELSE IF contains(W_result, head) \/ contains(W_finding, head) THEN "results"
       ELSE IF contains(W_discussion, head) \/ contains(W_conclusion, head)
            THEN "discussion"
       ELSE IF contains(W_reference, head) \/ contains(W_bibliography, head)
            THEN "references"
       ELSE IF 10 * chunk_index < 3 * total_chunks THEN "introduction"
       ELSE IF 10 * chunk_index < 7 * total_chunks THEN "body"
       ELSE "conclusion"

\* the call, for chunk chunk_index of a paper of total_chunks chunks
DetectSectionType ==
    /\ section_call = NoSection
    /\ \E chunk \in SectionChunks, total_chunks \in 1..MaxTotalChunks :
          \E chunk_index \in 0..(total_chunks - 1) :
             section_call' =
                [chunk |-> chunk, chunk_index |-> chunk_index,
                 total_chunks |-> total_chunks,
                 ret |-> detect_section_type(chunk, chunk_index, total_chunks)]
    /\ UNCHANGED <<storeVars, last, variant, chunkVars, chat_history, ui, ingest,
                   calls, rng, vectorized, vec_calls, tab_input, chunk_log>>

InitSection ==
    /\ chunk_size = DefaultChunkSize
    /\ overlap_size = DefaultOverlapSize
    /\ chunk_in = <<>>
    /\ chunk_out = NoCall
    /\ variant = "weaviate"
    /\ StoreInit
    /\ AppInit
    /\ rng = Unused

NextSection == DetectSectionType

SpecSection == InitSection /\ [][NextSection]_vars

(***************************************************************************)
(* Properties of the chunker                                               *)
(***************************************************************************)
Called == chunk_out.status # "none"
Returned == chunk_out.status = "returned"
ValidConfig == chunk_size > overlap_size /\ overlap_size >= 0

\* the words of a text, in order (its non-blank symbols)
WordsIn(t) == SelectSeq(t, LAMBDA c : c # WS)

\* the number of words of the input text (word p is at 0-based offset p - 1)
NumWords == Len(WordsIn(chunk_in))
StepSize == chunk_size - overlap_size

\* a text is its words joined by single blanks
SingleSpaced(t) ==
    \/ t = <<>>
    \/ /\ Len(t) % 2 = 1
       /\ \A i \in DOMAIN t : (t[i] = WS) <=> (i % 2 = 0)

\* the window words[i : i + chunk_size] of the input, as word identities
ExpectedWindow(i) ==
    [p \in 1..Min(chunk_size, NumWords - i) |-> i + p]

WindowStarts == {i \in 0..(NumWords - 1) : i % StepSize = 0}
KeptStarts == {i \in WindowStarts : Len(ExpectedWindow(i)) >= MinChunkWords}
NthOf(S, j) == CHOOSE i \in S : Cardinality({h \in S : h < i}) = j - 1

ChunkWords(j) == WordsIn(chunk_out.chunks[j])
NumChunks == Len(chunk_out.chunks)

\* C1: for chunk_size > overlap_size >= 0 the call returns, in increasing
\* start order, exactly the windows words[i*step : i*step+chunk_size] with
\* i*step < number of words that have at least 20 words, each joined by
\* single blanks; every chunk has 20..chunk_size words; a 600-word text with
\* chunk_size 250 and overlap 50 gives 3 chunks at offsets 0, 200, 400.
C1_ExactWindows ==
    (Called /\ ValidConfig) =>
        /\ Returned
        /\ NumChunks = Cardinality(KeptStarts)
        /\ \A j \in 1..NumChunks :
              LET cw == ChunkWords(j)
              IN /\ SingleSpaced(chunk_out.chunks[j])
                 /\ cw = ExpectedWindow(NthOf(KeptStarts, j))
                 /\ Len(cw) >= MinChunkWords
                 /\ Len(cw) <= chunk_size
        /\ (chunk_size = 250 /\ overlap_size = 50 /\ NumWords = ScenarioWords) =>
              /\ NumChunks = 3
              /\ \A j \in 1..3 : ChunkWords(j)[1] = 200 * (j - 1) + 1

C1_Witness ==
    /\ Returned
    /\ chunk_size = 250 /\ overlap_size = 50 /\ NumWords = ScenarioWords
    /\ NumChunks = 3

\* C2 (as claimed): with overlap_size >= chunk_size the call fails with an
\* error for every text; it never returns a list.
C2_OverlapTooLargeFails ==
    (Called /\ overlap_size >= chunk_size) => chunk_out.status = "ValueError"

\* C3 (as claimed): for a text of n >= 20 words and 0 <= overlap < chunk_size
\* every word position lies in at least one returned chunk.
C3_Coverage ==
    (Called /\ ValidConfig /\ NumWords >= MinChunkWords) =>
        \A p \in 1..NumWords :
            \E j \in 1..NumChunks :
                \E q \in DOMAIN chunk_out.chunks[j] : chunk_out.chunks[j][q] = p

PrefixN(s, m) == SubSeq(s, 1, m)
SuffixN(s, m) == SubSeq(s, Len(s) - m + 1, Len(s))
SymbolSet(s) == {s[i] : i \in DOMAIN s}

\* C4 (as claimed): two consecutive returned chunks c_j, c_j+1, c_j+1 not
\* the last returned chunk, share exactly overlap words: the last overlap
\* words of c_j are the first overlap words of c_j+1.
C4_ExactOverlap ==
    (Called /\ ValidConfig) =>
        \A j \in 1..(NumChunks - 2) :
            LET cj == ChunkWords(j)
                cn == ChunkWords(j + 1)
            IN /\ Len(cj) >= overlap_size
               /\ Len(cn) >= overlap_size
               /\ SuffixN(cj, overlap_size) = PrefixN(cn, overlap_size)
               /\ Cardinality(SymbolSet(cj) \cap SymbolSet(cn)) = overlap_size

\* C4 (amended): two consecutive returned chunks c_j, c_j+1, c_j+1 not the
\* last returned chunk, share exactly m = min(overlap, words of c_j+1)
\* words, the last m of c_j being the first m of c_j+1; m = overlap
\* whenever c_j is a full window of chunk_size words.
C4_OverlapUpToNextChunk ==
    (Called /\ ValidConfig) =>
        \A j \in 1..(NumChunks - 2) :
            LET cj == ChunkWords(j)
                cn == ChunkWords(j + 1)
                m == Min(overlap_size, Len(cn))
            IN /\ Len(cj) >= m
               /\ SuffixN(cj, m) = PrefixN(cn, m)
               /\ Cardinality(SymbolSet(cj) \cap SymbolSet(cn)) = m
               /\ (Len(cj) = chunk_size => m = overlap_size)

\* three kept chunks, the middle one shorter than the overlap
C4_Witness ==
    /\ Returned /\ ValidConfig
    /\ NumChunks >= 3
    /\ \E j \in 1..(NumChunks - 2) :
          /\ Len(ChunkWords(j + 1)) < overlap_size
          /\ Len(ChunkWords(j)) < chunk_size

NumWindows == Cardinality(WindowStarts)

\* C5 (as claimed): at most one window is dropped, and it is the one with
\* the largest start offset; every other window is kept.
C5_OnlyLastDropped ==
    (Called /\ ValidConfig) =>
        /\ NumChunks >= NumWindows - 1
        /\ \A j \in 1..NumChunks :
              ChunkWords(j) = ExpectedWindow((j - 1) * StepSize)

\* C5 (amended): the windows dropped by the 20-word floor are exactly the
\* windows of fewer than 20 words, and they are a trailing run of the
\* windows (possibly more than one): every window before the first dropped
\* one is kept, every window from it on is dropped.
C5_DroppedAreTrailing ==
    (Called /\ ValidConfig) =>
        /\ NumChunks <= NumWindows
        /\ \A j \in 1..NumChunks :
              ChunkWords(j) = ExpectedWindow((j - 1) * StepSize)
        /\ \A w \in 1..NumWindows :
              (w <= NumChunks)
                  <=> (Len(ExpectedWindow((w - 1) * StepSize)) >= MinChunkWords)

\* more than one window is dropped after a kept one
C5_Witness ==
    /\ Returned /\ ValidConfig
    /\ NumChunks >= 1
    /\ NumWindows - NumChunks >= 2


(***************************************************************************)
(* Properties of the stores and the managers                               *)
(***************************************************************************)
\* the records of one paper in a store
RecordsOf(stored, pid) == {i \in DOMAIN stored : stored[i].paper_id = pid}
IndexesOf(stored, pid) == {stored[i].chunk_index : i \in RecordsOf(stored, pid)}

Gapless(stored) ==
    \A pid \in paper_ids(stored) :
        IndexesOf(stored, pid) = 0..(Cardinality(RecordsOf(stored, pid)) - 1)

\* C6: after any sequence of insert_papers calls, also calls in which single
\* chunk inserts fail, the chunks stored for each paper_id carry the
\* chunk_index values 0..m-1: they start at 0, are unique and have no gaps.
C6_ChunkIndexGapless == Gapless(chunks_file) /\ Gapless(collection)

\* The lowercase word set of a text, stated without a scan: the maximal runs
\* of word characters of the lowercased text.
IsRun(t, a, b) ==
    /\ \A i \in a..b : t[i] \in WordChars
    /\ (a = 1 \/ t[a - 1] \notin WordChars)
    /\ (b = Len(t) \/ t[b + 1] \notin WordChars)
Tokens(text) ==
    LET t == lower_text(text)
    IN {SubSeq(t, a, b) : <<a, b>> \in {ab \in (DOMAIN t) \X (DOMAIN t) :
                                          ab[1] <= ab[2] /\ IsRun(t, ab[1], ab[2])}}

\* the word sets of the texts and queries of the runs
TokensOf == [t \in Contents("simple") \cup Queries("simple") |-> Tokens(t)]

\* a call that went through SimplePaperStorage.search_chunks
SearchedSimple ==
    /\ variant = "simple"
    /\ last.op \in {"search_chunks", "chat_with_papers", "generate_gap_analysis"}

\* the stored chunk a result was made from
IsFrom(r, k) ==
    /\ chunks_file[k].paper_id = r.paper_id
    /\ chunks_file[k].chunk_index = r.chunk_index
    /\ chunks_file[k].content = r.content

\* What the last search saw: the number of query tokens, the overlap of each
\* stored chunk with the query, and for each result the position of the
\* stored chunk it was made from (0 if there is none).
Seen ==
    LET Q == TokensOf[last.query]
    IN [qn |-> Cardinality(Q),
        ov |-> [k \in DOMAIN chunks_file |->
                   Cardinality(Q \cap TokensOf[chunks_file[k].content])],
        pos |-> [i \in DOMAIN last.relevant |->
                   IF \E k \in DOMAIN chunks_file : IsFrom(last.relevant[i], k)
                   THEN CHOOSE k \in DOMAIN chunks_file : IsFrom(last.relevant[i], k)
                   ELSE 0]]

NumMatching(ov) == Cardinality({k \in DOMAIN ov : ov[k] > 0})

\* C7: search_chunks(query, top_k) with top_k >= 0 returns at most top_k
\* results; each is a stored chunk that shares a token with the query, with
\* similarity |query_tokens \cap chunk_tokens| / |query_tokens|, which lies in
\* (0, 1]; a chunk without overlap is never returned.
C7_SearchChunks ==
    (SearchedSimple /\ last.top_k >= 0) =>
        LET s == Seen
        IN /\ Len(last.relevant) <= last.top_k
           /\ \A i \in DOMAIN last.relevant :
                 LET r == last.relevant[i]
                 IN /\ s.pos[i] # 0
                    /\ s.ov[s.pos[i]] > 0
                    /\ r.similarity = [num |-> s.ov[s.pos[i]], den |-> s.qn]
                    /\ 0 < r.similarity.num
                    /\ r.similarity.num <= r.similarity.den

\* a search that cut three matching chunks down to two, one of them with a
\* similarity below 1
C7_Witness ==
    /\ variant = "simple"
    /\ last.op = "search_chunks"
    /\ last.top_k = 2
    /\ Len(last.relevant) = 2
    /\ NumMatching(Seen.ov) = 3
    /\ \E i \in DOMAIN last.relevant :
          last.relevant[i].similarity.num < last.relevant[i].similarity.den

\* C8: the results are in non-increasing similarity order, results of equal
\* similarity in insertion order, and the ones kept are the highest ranked:
\* of two stored chunks with overlaps o1 > o2 the second is returned only
\* together with, and behind, the first; with top_k >= 0 the best top_k
\* matching chunks are returned.
C8_Ranking ==
    SearchedSimple =>
        LET R == last.relevant
            s == Seen
            rank == [k \in DOMAIN chunks_file |->
                       IF \E i \in DOMAIN R : s.pos[i] = k
                       THEN CHOOSE i \in DOMAIN R : s.pos[i] = k
                       ELSE 0]
        IN /\ \A i, j \in DOMAIN R :
                 i < j => /\ sim_ge(R[i].similarity, R[j].similarity)
                          /\ (sim_ge(R[j].similarity, R[i].similarity)
                                => s.pos[i] < s.pos[j])
           /\ \A k1, k2 \in DOMAIN chunks_file :
                 (s.ov[k1] > s.ov[k2] /\ rank[k2] # 0)
                    => (rank[k1] # 0 /\ rank[k1] < rank[k2])
           /\ last.top_k >= 0 => Len(R) = Min(last.top_k, NumMatching(s.ov))

\* chunks with overlaps 3, 1 and 0 are stored, the 1-overlap chunk before the
\* 3-overlap chunk, and k = 2 returns the 3-overlap then the 1-overlap chunk
C8_Witness ==
    /\ variant = "simple"
    /\ last.op = "search_chunks"
    /\ last.top_k = 2
    /\ {Seen.ov[k] : k \in DOMAIN chunks_file} = {3, 1, 0}
    /\ Len(last.relevant) = 2
    /\ Seen.ov[Seen.pos[1]] = 3
    /\ Seen.ov[Seen.pos[2]] = 1
    /\ Seen.pos[2] < Seen.pos[1]

\* two results of equal similarity, behind a better one that was stored later
C8_TieWitness ==
    /\ variant = "simple"
    /\ last.op = "search_chunks"
    /\ Len(last.relevant) = 3
    /\ last.relevant[2].similarity = last.relevant[3].similarity
    /\ Seen.pos[1] > Seen.pos[3]

\* a chat or gap-analysis call that built citations
Cited ==
    /\ last.op \in {"chat_with_papers", "generate_gap_analysis"}
    /\ last.resp.success

\* the positions of the first chunk of each paper in a ranked list
FirstOcc(R) == {i \in DOMAIN R : \A j \in 1..(i - 1) : R[j].paper_id # R[i].paper_id}
NthFirst(R, n) ==
    CHOOSE i \in FirstOcc(R) : Cardinality({j \in FirstOcc(R) : j < i}) = n - 1

\* C9: the sources of chat_with_papers and generate_gap_analysis hold one
\* citation per distinct paper_id of the retrieved chunks, built from the
\* first chunk of that paper, in the order of those first occurrences; in all
\* three managers.
C9_OneCitationPerPaper ==
    Cited =>
        LET R == last.relevant
            S == last.resp.sources
        IN /\ Len(S) = Cardinality(paper_ids(R))
           /\ \A n \in DOMAIN S :
                 S[n] = [title |-> R[NthFirst(R, n)].title,
                         chunk_index |-> R[NthFirst(R, n)].chunk_index]

\* three retrieved chunks, the first and the third of one paper
InterleavedRetrieval ==
    /\ Cited
    /\ Len(last.relevant) = 3
    /\ last.relevant[1].paper_id = last.relevant[3].paper_id
    /\ last.relevant[1].paper_id # last.relevant[2].paper_id
    /\ Len(last.resp.sources) = 2

C9_Witness == InterleavedRetrieval /\ variant = "weaviate"
C9_WitnessMock == InterleavedRetrieval /\ variant = "mock"
C9_WitnessSimple == InterleavedRetrieval /\ variant = "simple"

\* a chat or gap-analysis call whose chunk search returned []
EmptyRetrieval ==
    /\ last.op \in {"chat_with_papers", "generate_gap_analysis"}
    /\ last.relevant = <<>>

\* C10 (as stated): on an empty retrieval both calls return success=False, a
\* non-empty error and empty sources, and make no completion call.
C10_EmptySources ==
    EmptyRetrieval =>
        /\ ~last.resp.success
        /\ last.resp.error # <<>>
        /\ last.llm_calls = 0
        /\ "sources" \in DOMAIN last.resp
        /\ last.resp.sources = <<>>

\* C10: on an empty retrieval both calls return success=False and a non-empty
\* error and make no completion call; chat_with_papers returns empty sources,
\* generate_gap_analysis returns empty gaps and opportunities and no sources
\* entry.
C10_EmptyRetrievalShortCircuit ==
    EmptyRetrieval =>
        /\ ~last.resp.success
        /\ last.resp.error # <<>>
        /\ \A i \in DOMAIN last.resp.error : last.resp.error[i] # ""
        /\ last.llm_calls = 0
        /\ last.op = "chat_with_papers" => last.resp.sources = <<>>
        /\ last.op = "generate_gap_analysis" =>
              /\ "sources" \notin DOMAIN last.resp
              /\ last.resp.gaps = <<>>
              /\ last.resp.opportunities = <<>>

\* the search of a filled collection raised inside generate_gap_analysis of
\* the manager that has a completion service
C10_Witness ==
    /\ EmptyRetrieval
    /\ variant = "weaviate"
    /\ last.op = "generate_gap_analysis"
    /\ Len(collection) > 0

C10_WitnessChat ==
    /\ EmptyRetrieval
    /\ variant = "weaviate"
    /\ last.op = "chat_with_papers"
    /\ collection = <<>>


\* a chat or gap-analysis call whose completion call raised
LlmFailed ==
    /\ last.op \in {"chat_with_papers", "generate_gap_analysis"}
    /\ last.llm \in LlmErrors

\* C11: when the completion call raises during chat_with_papers or
\* generate_gap_analysis, the operation returns success=False with an error
\* that contains the service's message, and neither an answer (or analysis)
\* nor sources.
C11_CompletionFailureReported ==
    LlmFailed =>
        /\ ~last.resp.success
        /\ \E i \in DOMAIN last.resp.error : last.resp.error[i] = last.llm
        /\ "answer" \in DOMAIN last.resp => last.resp.answer = ""
        /\ "analysis" \notin DOMAIN last.resp
        /\ "sources" \in DOMAIN last.resp => last.resp.sources = <<>>

\* the completion call of a chat over retrieved chunks hit the quota
C11_Witness ==
    /\ LlmFailed
    /\ last.op = "chat_with_papers"
    /\ last.llm = "429 quota exceeded"
    /\ Len(last.relevant) > 1
    /\ last.llm_calls = 1

C11_WitnessGap ==
    /\ LlmFailed
    /\ last.op = "generate_gap_analysis"
    /\ last.llm = "connection error"
    /\ Len(last.relevant) > 1

\* C12: if a write to the backing store fails during insert_papers (a chunk
\* insert, or saving papers.json / chunks.json), insert_papers does not
\* return True; in the three variants.
C12_WriteFailurePropagates ==
    (last.op = "insert_papers" /\ last.failed) => ~last.ret

\* C13: whenever insert_papers returns False the stored chunks are the same
\* as before the call.
C13_FailedInsertWritesNothing ==
    [][(last'.op = "insert_papers" /\ ~last'.ret)
          => UNCHANGED <<papers_file, chunks_file, collection>>]_vars

\* a call that went through the vector search, which answered
VectorSearched ==
    /\ variant \in {"weaviate", "mock"}
    /\ last.op \in {"search_relevant_chunks", "chat_with_papers", "generate_gap_analysis"}
    /\ last.backend = "ok"

\* C14: for every result whose distance d lies in [0, 1], d = 0 included,
\* search_relevant_chunks reports similarity = 1 - d.
C14_SimilarityIsOneMinusDistance ==
    VectorSearched =>
        \A i \in DOMAIN last.relevant :
            last.distances[i] \in 0..DistScale =>
                last.relevant[i].similarity.num * DistScale
                    = (DistScale - last.distances[i]) * last.relevant[i].similarity.den

\* C15: when the search fails inside chat_with_papers or
\* generate_gap_analysis, the failure is surfaced: the response is not the
\* one given for a retrieval without matching chunks.
C15_SearchFailureSurfaced ==
    (/\ last.op \in {"chat_with_papers", "generate_gap_analysis"}
     /\ last.backend = "raise")
        => last.resp \notin {chat_empty, gap_empty}


(***************************************************************************)
(* Properties of chat_tab                                                  *)
(***************************************************************************)
\* every user entry is followed by an assistant entry
Answered_(history) ==
    /\ Len(history) % 2 = 0
    /\ \A i \in DOMAIN history :
          history[i].role = (IF i % 2 = 1 THEN "user" ELSE "assistant")

\* one Send Question turn: a turn that ends in an answer appends one user
\* entry and one assistant entry, every other turn leaves the history as it
\* was
TurnEffect ==
    ui'.event = "send" =>
        IF ui'.shown = "rerun"
        THEN /\ Len(chat_history') = Len(chat_history) + 2
             /\ SubSeq(chat_history', 1, Len(chat_history)) = chat_history
             /\ chat_history'[Len(chat_history) + 1].role = "user"
             /\ chat_history'[Len(chat_history) + 2].role = "assistant"
        ELSE chat_history' = chat_history

\* C16: after any sequence of Send Question actions chat_history never keeps
\* a user entry without an assistant entry after it: a failed turn leaves
\* chat_history as it was before the turn, a successful turn appends exactly
\* one user entry followed by one assistant entry.
C16_NoDanglingQuestion == [](Answered_(chat_history)) /\ [][TurnEffect]_vars

\* a turn failed after a turn that was answered
C16_Witness ==
    /\ Len(chat_history) = 2
    /\ ui = [event |-> "send", shown |-> "error"]


(***************************************************************************)
(* Properties of batch ingestion                                           *)
(***************************************************************************)
\* the number of times document k was counted
TimesCounted(k) ==
    Cardinality({i \in DOMAIN ingest.successful : ingest.successful[i] = k})
      + Cardinality({i \in DOMAIN ingest.failed : ingest.failed[i].name = k})

CountedOnce ==
    /\ \A k \in 1..ingest.files : TimesCounted(k) = 1
    /\ Len(ingest.successful) + Len(ingest.failed) = ingest.files

\* C17: when a batch ingestion ends, every document of the batch has been
\* counted exactly once, as succeeded or as failed: succeeded + failed is the
\* number of documents.
C17_EveryDocumentCountedOnce == ingest.fn # "none" => CountedOnce

\* the part of C17 that process_directory keeps
C17_DirectoryCountedOnce == ingest.fn = "process_directory" => CountedOnce


(***************************************************************************)
(* Properties of repeated insertion                                        *)
(***************************************************************************)
\* an insert_papers call of SimplePaperStorage that wrote both files
StoredSimple(call) ==
    /\ variant = "simple"
    /\ call.op = "insert_papers"
    /\ call.ret
    /\ ~call.failed
    /\ call.batch # <<>>

\* the chunks of the papers of a batch, in order, without their ids
RECURSIVE BatchContents(_)
BatchContents(batch) ==
    IF batch = <<>> THEN <<>>
    ELSE [i \in DOMAIN Head(batch).chunks |->
             [title |-> Head(batch).title, chunk_index |-> i - 1,
              content |-> Head(batch).chunks[i]]]
         \o BatchContents(Tail(batch))

Unlabelled(chunks) ==
    [i \in DOMAIN chunks |->
        [title |-> chunks[i].title, chunk_index |-> chunks[i].chunk_index,
         content |-> chunks[i].content]]

AllDistinct(seq) == \A i, j \in DOMAIN seq : seq[i] = seq[j] => i = j

PaperIds(papers) == [i \in DOMAIN papers |-> papers[i].paper_id]

\* a call adds one new paper record per paper and one chunk record per chunk
\* behind the records already stored, under paper ids not used before
AppendsBatch ==
    StoredSimple(last') =>
        LET n == Len(papers_file)
            m == Len(chunks_file)
            batch == last'.batch
        IN /\ Len(papers_file') = n + Len(batch)
           /\ SubSeq(papers_file', 1, n) = papers_file
           /\ AllDistinct(PaperIds(papers_file'))
           /\ \A j \in DOMAIN batch :
                 /\ papers_file'[n + j].title = batch[j].title
                 /\ papers_file'[n + j].chunk_count = Len(batch[j].chunks)
           /\ Len(chunks_file') = m + Len(BatchContents(batch))
           /\ SubSeq(chunks_file', 1, m) = chunks_file
           /\ Unlabelled(SubSeq(chunks_file', m + 1, Len(chunks_file')))
                 = BatchContents(batch)
           /\ \A i \in (m + 1)..Len(chunks_file') :
                 \E j \in DOMAIN batch :
                     chunks_file'[i].paper_id = papers_file'[n + j].paper_id

\* the second of two calls with the same papers, the first made on an empty
\* store: both counts double
SecondCallDoubles ==
    (/\ StoredSimple(last) /\ StoredSimple(last')
     /\ last'.batch = last.batch
     /\ Len(papers_file) = Len(last.batch)
     /\ Len(chunks_file) = Len(BatchContents(last.batch)))
        => /\ Len(papers_file') = 2 * Len(papers_file)
           /\ Len(chunks_file') = 2 * Len(chunks_file)
           /\ Unlabelled(chunks_file') = Unlabelled(chunks_file) \o Unlabelled(chunks_file)

\* C18: insert_papers never upserts: a second call of
\* SimplePaperStorage.insert_papers with the same paper data creates new
\* paper ids and a full second set of chunks (paper and chunk counts double),
\* and leaves the records of the first call unchanged.
C18_InsertNeverUpserts == [][AppendsBatch /\ SecondCallDoubles]_vars

\* the same paper with the same chunk stored twice under two paper ids
C18_Witness ==
    /\ StoredSimple(last)
    /\ Len(papers_file) = 2
    /\ papers_file[1].paper_id # papers_file[2].paper_id
    /\ papers_file[1].title = papers_file[2].title
    /\ Len(chunks_file) = 2
    /\ chunks_file[1].content = chunks_file[2].content
    /\ chunks_file[1].paper_id = papers_file[1].paper_id
    /\ chunks_file[2].paper_id = papers_file[2].paper_id
    /\ Len(last.batch) = 1


(***************************************************************************)
(* Properties of concurrent insertion                                      *)
(***************************************************************************)
\* the records a call added to the dictionaries it had loaded
AddedPapers(c) ==
    {calls[c].papers[i] : i \in (Len(calls[c].papers) - Len(calls[c].papers_data) + 1)
                                  ..Len(calls[c].papers)}
AddedChunks(c) ==
    {calls[c].chunks[i] :
        i \in (Len(calls[c].chunks) - Len(calls[c].papers_data[1].chunks) + 1)
                ..Len(calls[c].chunks)}

Stored(file) == {file[i] : i \in DOMAIN file}

\* C19: when two insert_papers calls on the same SimplePaperStorage run with
\* their load / modify / save steps interleaved and both return True, the
\* stored papers and chunks contain every paper and every chunk of both
\* calls.
C19_NoLostUpdate ==
    (\A c \in Callers : calls[c].pc = "returned_true") =>
        \A c \in Callers :
            /\ AddedPapers(c) \subseteq Stored(papers_file)
            /\ AddedChunks(c) \subseteq Stored(chunks_file)


(***************************************************************************)
(* Properties of the mock vectorizer                                       *)
(***************************************************************************)
\* two calls with the same text had the same outcome
Reproducible ==
    \A i, j \in DOMAIN vectorized :
        vectorized[i].text = vectorized[j].text
            => /\ vectorized[i].status = vectorized[j].status
               /\ vectorized[i].vector = vectorized[j].vector

C20_WitnessEdges ==
    /\ Len(vectorized) = 3
    /\ vectorized[1].text = <<>>
    /\ vectorized[2].text = LongText
    /\ vectorized[3].text = <<>>
    /\ vectorized[2].status = "returned"

(***************************************************************************)
(* C21: when two vectorize calls on texts shorter than vector_dim run in   *)
(* two threads with their seeding and drawing steps interleaved, each call *)
(* returns the vector it returns when it runs alone.                       *)
(***************************************************************************)
\* the vector of a call that runs alone (on any state of the generator)
AloneVector(text) == vectorize(text, Unused).vector

C21_ConcurrentCallsIndependent ==
    \A c \in Callers :
        vec_calls[c].pc = "returned"
            => vec_calls[c].result = AloneVector(vec_calls[c].text)

(***************************************************************************)
(* C22: detect_section_type returns one of abstract, introduction,         *)
(* methods, results, discussion, references, body, conclusion; at every    *)
(* chunk position (chunk_index 0 and the first 10% of the chunks too) a    *)
(* keyword in the first 100 characters overrides the position: "method"    *)
(* gives methods, "result" results, "discussion" discussion, "reference"   *)
(* references; only a chunk with no keyword is labelled by its position    *)
(* (index < 30% of the total: introduction, < 70%: body, else conclusion). *)
(***************************************************************************)
SectionLabels ==
    {"abstract", "introduction", "methods", "results", "discussion",
     "references", "body", "conclusion"}

Labelled == section_call.ret # "none"

\* the word occurs, in any case, among the first 100 characters of the chunk
Sniffed(word) ==
    \E i \in 1..(SniffChars - Len(word) + 1) :
        /\ i + Len(word) - 1 <= Len(section_call.chunk)
        /\ \A k \in 1..Len(word) :
              lower_letter(section_call.chunk[i + k - 1]) = word[k]

\* the label of the position among the thirds
ByPosition ==
    IF 10 * section_call.chunk_index < 3 * section_call.total_chunks THEN "introduction"
    ELSE IF 10 * section_call.chunk_index < 7 * section_call.total_chunks THEN "body"
    ELSE "conclusion"

\* index 0 and the first 10% of the chunks
AtStart ==
    \/ section_call.chunk_index = 0
    \/ 10 * section_call.chunk_index < section_call.total_chunks

\* the label of the first keyword group found, "" when there is none
ByKeyword ==
    IF Sniffed(W_method) THEN "methods"
    ELSE IF Sniffed(W_result) \/ Sniffed(W_finding) THEN "results"
    ELSE IF Sniffed(W_discussion) \/ Sniffed(W_conclusion) THEN "discussion"
    ELSE IF Sniffed(W_reference) \/ Sniffed(W_bibliography) THEN "references"
    ELSE ""

\* the claim as stated: the four keywords, in their order, at every position
C22_KeywordOverridesEverywhere ==
    Labelled =>
        /\ section_call.ret \in SectionLabels
        /\ Sniffed(W_method) => section_call.ret = "methods"
        /\ (~Sniffed(W_method) /\ Sniffed(W_result)) => section_call.ret = "results"
        /\ (~Sniffed(W_method) /\ ~Sniffed(W_result) /\ Sniffed(W_discussion))
              => section_call.ret = "discussion"
        /\ (~Sniffed(W_method) /\ ~Sniffed(W_result) /\ ~Sniffed(W_discussion)
                /\ Sniffed(W_reference))
              => section_call.ret = "references"
        /\ (~Sniffed(W_method) /\ ~Sniffed(W_result) /\ ~Sniffed(W_discussion)
                /\ ~Sniffed(W_reference))
              => section_call.ret = ByPosition

\* the claim with the start of the paper set apart: at index 0 and in the
\* first 10% of the chunks the label is abstract or introduction whatever
\* keyword the chunk has; elsewhere the first keyword group found decides,
\* and only a chunk with none is labelled by its position
C22_KeywordOverridesAfterStart ==
    Labelled =>
        /\ section_call.ret \in SectionLabels
        /\ AtStart =>
              section_call.ret =
                 IF Sniffed(W_abstract) THEN "abstract" ELSE "introduction"
        /\ (~AtStart /\ ByKeyword # "") => section_call.ret = ByKeyword
        /\ (~AtStart /\ ByKeyword = "") => section_call.ret = ByPosition

\* a chunk after the start of the paper whose keyword decides against its
\* position, and a chunk at the start with a keyword
C22_Witness ==
    /\ Labelled /\ ~AtStart /\ Sniffed(W_result) /\ ~Sniffed(W_method)
    /\ section_call.ret = "results" /\ ByPosition = "conclusion"

C22_WitnessStart ==
    /\ Labelled /\ AtStart /\ section_call.chunk_index > 0 /\ Sniffed(W_method)
    /\ section_call.ret = "introduction"

(***************************************************************************)
(* C23: when the text extracted from a document has fewer than 100         *)
(* characters after stripping, process_paper raises and makes no chunk     *)
(* objects; process_directory then leaves the document out of its results  *)
(* and records it in its errors, and no chunk of the document reaches the  *)
(* store.                                                                  *)
(***************************************************************************)
\* the number of characters of a text from its first to its last non-blank
StrippedLen(text) ==
    LET inked == {i \in DOMAIN text : text[i] # " "}
    IN IF inked = {} THEN 0
       ELSE (CHOOSE i \in inked : \A j \in (i + 1)..Len(text) : text[j] = " ")
              - (CHOOSE i \in inked : \A j \in 1..(i - 1) : text[j] = " ") + 1

TooShort(k) == StrippedLen(ingest.docs[k].raw_text) < MinTextChars

InResults(k) == \E i \in DOMAIN ingest.successful : ingest.successful[i] = k
InErrors(k) == \E i \in DOMAIN ingest.failed : ingest.failed[i].name = k
InStore(k) == \E i \in DOMAIN collection : collection[i].title = k

C23_ShortTextSkipped ==
    ingest.fn # "none" =>
        \A k \in DOMAIN ingest.docs :
            TooShort(k) => ~InResults(k) /\ InErrors(k) /\ ~InStore(k)

\* process_directory has met a document whose text is one character short
\* after stripping (and long enough before), and one with enough text
C23_Witness ==
    /\ ingest.fn = "process_directory"
    /\ \E k \in DOMAIN ingest.docs :
          /\ ingest.docs[k].pdf = "ok"
          /\ Len(ingest.docs[k].raw_text) >= MinTextChars
          /\ TooShort(k) /\ InErrors(k)
    /\ \E k \in DOMAIN ingest.docs : ~TooShort(k) /\ InResults(k)

\* the same in process_uploaded_papers, with the other document stored
C23_WitnessUpload ==
    /\ ingest.fn = "process_uploaded_papers"
    /\ \E k \in DOMAIN ingest.docs :
          ingest.docs[k].pdf = "ok" /\ TooShort(k) /\ InErrors(k)
    /\ \E k \in DOMAIN ingest.docs : ~TooShort(k) /\ InStore(k)

(***************************************************************************)
(* C24: the reading calls of SimplePaperStorage (search_chunks,            *)
(* get_collection_stats, get_all_papers) never change the stored papers or *)
(* chunks, and two search_chunks calls with the same query and top_k and   *)
(* no insert_papers call between them return the same list.                *)
(***************************************************************************)
ReadingCalls == {"search_chunks", "get_collection_stats", "get_all_papers"}

\* a step that is a reading call leaves both files as they are
ReadLeavesStore ==
    (last'.nth # last.nth /\ last'.op \in ReadingCalls)
        => (papers_file' = papers_file /\ chunks_file' = chunks_file)

\* the searches made since the last insert agree wherever their arguments do
SearchesAgree ==
    \A a \in last.searches, b \in last.searches :
        (a.query = b.query /\ a.top_k = b.top_k) => a.results = b.results

C25_AtMostRequestedChunks ==
    (tab_input.tab # "none" /\ last.op \in {"chat_with_papers", "generate_gap_analysis"})
        => Len(last.relevant) <= tab_input.requested

(***************************************************************************)
(* C26: chunking is deterministic and stateless: two calls of              *)
(* chunk_text_sliding_window with the same text, chunk_size and            *)
(* overlap_size return the same list of chunks, whatever chunking calls    *)
(* were made before or between them.                                       *)
(***************************************************************************)
SameChunkArgs(a, b) ==
    /\ a.text = b.text
    /\ a.chunk_size = b.chunk_size
    /\ a.overlap_size = b.overlap_size

ChunksOfPaper(paper_id) ==
    Cardinality({i \in DOMAIN chunks_file : chunks_file[i].paper_id = paper_id})

RECURSIVE SumChunkCounts(_)
SumChunkCounts(papers) ==
    IF papers = <<>> THEN 0
    ELSE Head(papers).chunk_count + SumChunkCounts(Tail(papers))

StoreConsistent ==
    /\ \A i \in DOMAIN chunks_file :
          \E j \in DOMAIN papers_file :
             papers_file[j].paper_id = chunks_file[i].paper_id
    /\ \A j \in DOMAIN papers_file :
          papers_file[j].chunk_count = ChunksOfPaper(papers_file[j].paper_id)

StatsConsistent ==
    last.op = "get_collection_stats" =>
        /\ last.resp.total_papers = Len(papers_file)
        /\ last.resp.total_chunks = SumChunkCounts(papers_file)

C27_PapersAndChunksConsistent == StoreConsistent /\ StatsConsistent

(***************************************************************************)
(* C28: when the vector backend returns its objects in order of            *)
(* non-decreasing distance, the distances lying in [0, 1] (0 included),    *)
(* the list search_relevant_chunks returns is in order of non-increasing   *)
(* similarity, so that its first result has the greatest similarity.       *)
(***************************************************************************)
NearestFirst ==
    /\ \A i \in DOMAIN last.distances : last.distances[i] \in 0..DistScale
    /\ \A i \in DOMAIN last.distances, j \in DOMAIN last.distances :
          i < j => last.distances[i] <= last.distances[j]

C28_MostSimilarFirst ==
    (VectorSearched /\ NearestFirst) =>
        \A i \in DOMAIN last.relevant, j \in DOMAIN last.relevant :
            i < j => sim_ge(last.relevant[i].similarity, last.relevant[j].similarity)

(***************************************************************************)
(* C29: an uploaded document is counted as successful (the counter, the    *)
(* processed_papers entry, its chunks in total_chunks) only if every one   *)
(* of its chunks was stored; if insert_papers returns False or a chunk     *)
(* insert fails, the document is in the failed list instead.               *)
(***************************************************************************)
StoredChunksOf(k) ==
    Cardinality({i \in DOMAIN collection : collection[i].title = k})

AllChunksStored(k) == StoredChunksOf(k) = Len(ingest.docs[k].chunks)

C29_SuccessfulMeansStored ==
    ingest.fn = "process_uploaded_papers" =>
        \A k \in DOMAIN ingest.docs :
            /\ InResults(k) => AllChunksStored(k)
            /\ (process_paper(ingest.docs[k]).status = "returned" /\ ~AllChunksStored(k))
                  => (InErrors(k) /\ ~InResults(k))

(***************************************************************************)
(* C30: SimplePaperStorage.search_chunks never divides by zero and never   *)
(* raises: for a query without a word (empty, or punctuation only) it      *)
(* returns the empty list whatever the store holds, and on an empty store  *)
(* it returns the empty list for every query.                              *)
(***************************************************************************)
WordlessQuery == TokensOf[last.query] = {}

\* the last call was search_chunks on the storage
SearchChunksCalled == variant = "simple" /\ last.op = "search_chunks"

C30_SearchNeverDividesByZero ==
    SearchChunksCalled =>
        /\ last.raised = "none"
        /\ WordlessQuery => last.relevant = <<>>
        /\ chunks_file = <<>> => last.relevant = <<>>

\* a query of punctuation only on a store with chunks, and a query with
\* words on an empty store
C30_Witness ==
    /\ SearchChunksCalled /\ chunks_file # <<>>
    /\ last.query # <<>> /\ WordlessQuery
    /\ last.relevant = <<>> /\ last.raised = "none"

C30_WitnessEmptyStore ==
    /\ SearchChunksCalled /\ chunks_file = <<>>
    /\ ~WordlessQuery /\ last.relevant = <<>> /\ last.raised = "none"

====
